---------------------------- MODULE Spec2Model ----------------------------
(***************************************************************************)
(* A model of the two command-line tools of the repository:                *)
(*   kql_generator.py     the KQL query generator (KQLQueryGenerator)      *)
(*   nist_800_171_grc.py  the NIST 800-171 assessment (NISTGRCAssessment)  *)
(*                                                                         *)
(* Python strings are TLA+ strings, i.e. sequences of characters: Len,     *)
(* SubSeq, Head, Tail and \o act on them character by character.           *)
(***************************************************************************)
EXTENDS Integers, Sequences, FiniteSets, TLC

VARIABLES
    pc,        \* kql_generator: "start" before the call, "done" after it;
               \* either main(): where the run is ("start", "output", "except", "done")
    op,        \* kql_generator: the method that was called
    args,      \* kql_generator: the inputs of the call
    ret,       \* kql_generator: the string the call returned;
               \* either main(): its variable query or output
    exc,       \* kql_generator: the exception str.format raised inside the call;
               \* nist_800_171_grc main(): str() of the exception caught
    raised,    \* kql_generator: the exception that left the call;
               \* either main(): the exception raised in it
    console,   \* kql_generator: the error lines the call printed
    controls,  \* nist_800_171_grc: self.controls, id -> the Control's fields
    assessment_date,  \* nist_800_171_grc: self.assessment_date
    g_op,      \* nist_800_171_grc: the method that was called last
    g_arg,     \* nist_800_171_grc: its argument
    g_ret,     \* nist_800_171_grc: what it returned
    g_raised,  \* nist_800_171_grc: the exception that left the call
    argv,      \* either main(): the parsed command line
    stdin,     \* either main(): the lines input() has still to read
    stdout,    \* either main(): what print() wrote, one element per call
    files,     \* either main(): path -> the text written to it
    exit_code, \* either main(): the exit status of the process, -1 while it runs
    heap,      \* several assessments: the NISTControl objects, address -> fields
    instances, \* several assessments: the NISTGRCAssessment objects constructed so far
    self       \* several assessments: the instance the last call was made on

kql_vars == <<pc, op, args, ret, exc, raised, console>>
grc_vars == <<controls, assessment_date, g_op, g_arg, g_ret, g_raised>>
cli_vars == <<argv, stdin, stdout, files, exit_code>>
obj_vars == <<heap, instances, self>>
vars ==
    <<pc, op, args, ret, exc, raised, console, controls, assessment_date, g_op, g_arg,
      g_ret, g_raised, argv, stdin, stdout, files, exit_code, heap, instances, self>>

(***************************************************************************)
(* Bounds of the model.                                                    *)
(***************************************************************************)
\* At most MaxInstances NISTGRCAssessment objects are constructed in one process.
MaxInstances == 2

\* A prompt is the concatenation of at most MaxPieces pieces of PromptPieces.
MaxPieces == 2

(***************************************************************************)
(* Python's string operations, character by character.                     *)
(***************************************************************************)
Char(s, i) == SubSeq(s, i, i)

ASCII_UPPER == "ABCDEFGHIJKLMNOPQRSTUVWXYZ"
ASCII_LOWER == "abcdefghijklmnopqrstuvwxyz"

\* str.lower() on one character (ASCII letters; every other character of the
\* model's alphabet is its own lower case).
LowerChar(c) ==
    IF \E i \in 1..Len(ASCII_UPPER) : Char(ASCII_UPPER, i) = c
    THEN Char(ASCII_LOWER, CHOOSE i \in 1..Len(ASCII_UPPER) : Char(ASCII_UPPER, i) = c)
    ELSE c

\* str.lower()
RECURSIVE lower(_)
lower(s) == IF Len(s) = 0 THEN "" ELSE LowerChar(Head(s)) \o lower(Tail(s))

\* s.startswith(word) in place of `word in s`.
in_str_at_start(word, s) == Len(word) <= Len(s) /\ SubSeq(s, 1, Len(word)) = word

\* `word in s`: substring containment.
in_str(word, s) ==
    \E i \in 1..(Len(s) - Len(word) + 1) : SubSeq(s, i, i + Len(word) - 1) = word

\* any(word in s for word in words)
any_word_in(words, s) == \E k \in DOMAIN words : in_str(words[k], s)

Whitespace == {" ", "\t", "\n", "\r"}

\* str.strip()
RECURSIVE lstrip(_)
lstrip(s) == IF Len(s) > 0 /\ Head(s) \in Whitespace THEN lstrip(Tail(s)) ELSE s

RECURSIVE rstrip(_)
rstrip(s) ==
    IF Len(s) > 0 /\ Char(s, Len(s)) \in Whitespace
    THEN rstrip(SubSeq(s, 1, Len(s) - 1))
    ELSE s

strip(s) == rstrip(lstrip(s))

\* s.split(','): the pieces between the commas, always at least one piece.
RECURSIVE split_comma(_)
split_comma(s) ==
    IF \E i \in 1..Len(s) : Char(s, i) = ","
    THEN LET i == CHOOSE i \in 1..Len(s) :
                     /\ Char(s, i) = ","
                     /\ \A j \in 1..(i - 1) : Char(s, j) # ","
         IN <<SubSeq(s, 1, i - 1)>> \o split_comma(SubSeq(s, i + 1, Len(s)))
    ELSE <<s>>

\* sep.join(items)
RECURSIVE join(_, _)
join(sep, items) ==
    IF Len(items) = 0 THEN ""
    ELSE IF Len(items) = 1 THEN items[1]
    ELSE items[1] \o sep \o join(sep, Tail(items))

\* `x or default` on strings: the empty string is falsy.
or_default(x, default) == IF x = "" THEN default ELSE x

(***************************************************************************)
(* str.format with keyword arguments: the template is scanned left to     *)
(* right; "{{" and "}}" are literal braces, "{name}" is replaced by        *)
(* kwargs[name], and the first name that kwargs lacks raises               *)
(* KeyError(name).  The substituted values are not scanned again.  A       *)
(* result is [exc, text]: exc is "None" and text the formatted string, or  *)
(* exc names the exception raised and text is its argument.                *)
(***************************************************************************)
\* The position of the first brace of t at or after i, Len(t) + 1 if none.
NextBrace(t, i) ==
    IF \E j \in i..Len(t) : Char(t, j) \in {"{", "}"}
    THEN CHOOSE j \in i..Len(t) :
             /\ Char(t, j) \in {"{", "}"}
             /\ \A k \in i..(j - 1) : Char(t, k) \notin {"{", "}"}
    ELSE Len(t) + 1

\* The position of the first "}" of t at or after i, Len(t) + 1 if none.
NextClose(t, i) ==
    IF \E j \in i..Len(t) : Char(t, j) = "}"
    THEN CHOOSE j \in i..Len(t) :
             /\ Char(t, j) = "}"
             /\ \A k \in i..(j - 1) : Char(t, k) # "}"
    ELSE Len(t) + 1

Formatted(text) == [exc |-> "None", text |-> text]
Raised(kind, what) == [exc |-> kind, text |-> what]
After(prefix, r) == IF r.exc = "None" THEN Formatted(prefix \o r.text) ELSE r

\* A missing name raises KeyError(name).
MissingField(name) == Raised("KeyError", name)

\* The names of the replacement fields of a template, as the scan finds them.
RECURSIVE FieldsFrom(_, _)
FieldsFrom(t, i) ==
    LET j == NextBrace(t, i)
    IN  IF j > Len(t) THEN {}
        ELSE IF j < Len(t) /\ Char(t, j + 1) = Char(t, j) THEN FieldsFrom(t, j + 2)
        ELSE IF Char(t, j) = "}" THEN {}
        ELSE LET k == NextClose(t, j + 1)
             IN  IF k > Len(t) THEN {}
                 ELSE {SubSeq(t, j + 1, k - 1)} \cup FieldsFrom(t, k + 1)

Placeholders(t) == FieldsFrom(t, 1)

RECURSIVE vformat(_, _, _)
vformat(t, i, kwargs) ==
    LET j == NextBrace(t, i)
        literal == SubSeq(t, i, j - 1)
    IN  IF j > Len(t) THEN Formatted(literal)
        ELSE IF j < Len(t) /\ Char(t, j + 1) = Char(t, j)
        THEN After(literal \o Char(t, j), vformat(t, j + 2, kwargs))
        ELSE IF Char(t, j) = "}"
        THEN Raised("ValueError", "Single '}' encountered in format string")
        ELSE LET k == NextClose(t, j + 1)
                 name == SubSeq(t, j + 1, k - 1)
             IN  IF k > Len(t)
                 THEN Raised("ValueError", "expected '}' before end of string")
                 ELSE IF name \notin DOMAIN kwargs
                 THEN MissingField(name)
                 ELSE After(literal \o kwargs[name], vformat(t, k + 1, kwargs))

\* format with the empty string substituted for every name kwargs lacks.
format_defaulting(t, kwargs) ==
    vformat(t, 1, [name \in Placeholders(t) \cup DOMAIN kwargs |->
                      IF name \in DOMAIN kwargs THEN kwargs[name] ELSE ""])

format(t, kwargs) == vformat(t, 1, kwargs)

\* The empty keyword arguments.
NoArgs == [x \in {} |-> ""]

(***************************************************************************)
(* kql_generator.py: KQLQueryGenerator                                     *)
(***************************************************************************)
\* self.query_templates, in the order of the dict.
TemplateNames ==
    <<"failed_logins", "suspicious_processes", "network_connections",
      "file_modifications", "privilege_escalation", "threat_hunting">>

query_templates ==
    [failed_logins |->
        [description |-> "Query for failed login attempts",
         template |-> "SigninLogs\n| where TimeGenerated >= ago({timeframe})\n| where ResultType != \"0\"\n| where UserPrincipalName contains \"{user_filter}\"\n| project TimeGenerated, UserPrincipalName, IPAddress, Location, ResultType, ResultDescription\n| order by TimeGenerated desc",
         parameters |-> <<"timeframe", "user_filter">>],
     suspicious_processes |->
        [description |-> "Query for suspicious process execution",
         template |-> "DeviceProcessEvents\n| where TimeGenerated >= ago({timeframe})\n| where ProcessCommandLine has_any ({suspicious_commands})\n| project TimeGenerated, DeviceName, ProcessCommandLine, InitiatingProcessFileName, AccountName\n| order by TimeGenerated desc",
         parameters |-> <<"timeframe", "suspicious_commands">>],
     network_connections |->
        [description |-> "Query for outbound network connections",
         template |-> "DeviceNetworkEvents\n| where TimeGenerated >= ago({timeframe})\n| where ActionType == \"ConnectionSuccess\"\n| where RemoteIP !startswith \"10.\" and RemoteIP !startswith \"192.168.\" and RemoteIP !startswith \"172.\"\n| where RemotePort in ({ports})\n| project TimeGenerated, DeviceName, RemoteIP, RemotePort, LocalIP, InitiatingProcessFileName\n| order by TimeGenerated desc",
         parameters |-> <<"timeframe", "ports">>],
     file_modifications |->
        [description |-> "Query for file creation/modification events",
         template |-> "DeviceFileEvents\n| where TimeGenerated >= ago({timeframe})\n| where ActionType in (\"FileCreated\", \"FileModified\")\n| where FolderPath has_any ({file_paths})\n| project TimeGenerated, DeviceName, FileName, FolderPath, ActionType, InitiatingProcessFileName\n| order by TimeGenerated desc",
         parameters |-> <<"timeframe", "file_paths">>],
     privilege_escalation |->
        [description |-> "Query for potential privilege escalation attempts",
         template |-> "SecurityEvent\n| where TimeGenerated >= ago({timeframe})\n| where EventID in (4728, 4729, 4732, 4733, 4756, 4757)\n| where Account !endswith \"$\"\n| project TimeGenerated, Computer, Account, Activity, SubjectUserName\n| order by TimeGenerated desc",
         parameters |-> <<"timeframe">>],
     threat_hunting |->
        [description |-> "General threat hunting query",
         template |-> "{table_name}\n| where TimeGenerated >= ago({timeframe})\n| where {search_field} has \"{search_term}\"\n| project TimeGenerated, {display_fields}\n| order by TimeGenerated desc\n| take {limit}",
         parameters |-> <<"table_name", "timeframe", "search_field", "search_term", "display_fields", "limit">>]]

Range(f) == {f[x] : x \in DOMAIN f}

\* Only the first declared parameter name.
DeclaredParameters_first_only(name) == {query_templates[name].parameters[1]}

\* The declared parameter names of a template.
DeclaredParameters(name) == Range(query_templates[name].parameters)

\* The keyword lists of generate_from_prompt, in the order of its if/elif chain.
AuthWords == <<"failed", "login", "signin", "authentication">>
ProcessWords == <<"process", "execution", "command">>
NetworkWords == <<"network", "connection", "traffic">>
FileWords == <<"file", "creation", "modification">>
PrivilegeWords == <<"privilege", "escalation", "admin">>

\* The keyword arguments each branch of generate_from_prompt passes to format.
FailedLoginsArgs == [timeframe |-> "24h", user_filter |-> "*"]
SuspiciousProcessesArgs ==
    [timeframe |-> "24h", suspicious_commands |-> "(\"powershell\", \"cmd\", \"wscript\")"]
NetworkConnectionsArgs == [timeframe |-> "24h", ports |-> "80,443,22,3389"]
FileModificationsArgs ==
    [timeframe |-> "24h", file_paths |-> "(\"C:\\\\Windows\\\\System32\", \"C:\\\\Temp\")"]
PrivilegeEscalationArgs == [timeframe |-> "24h"]
\* The keyword arguments of the default branch without search_term.
ThreatHuntingArgs_no_search_term(prompt) ==
    [table_name |-> "SecurityEvent",
     timeframe |-> "24h",
     search_field |-> "Activity",
     display_fields |-> "TimeGenerated, Computer, Account, Activity",
     limit |-> "100"]

ThreatHuntingArgs(prompt) ==
    [table_name |-> "SecurityEvent",
     timeframe |-> "24h",
     search_field |-> "Activity",
     search_term |-> prompt,
     display_fields |-> "TimeGenerated, Computer, Account, Activity",
     limit |-> "100"]

\* generate_from_prompt with the file keywords tested before the others.
generate_from_prompt_file_first(prompt) ==
    LET prompt_lower == lower(prompt)
    IN  IF any_word_in(FileWords, prompt_lower)
        THEN format(query_templates["file_modifications"].template, FileModificationsArgs)
        ELSE IF any_word_in(AuthWords, prompt_lower)
        THEN format(query_templates["failed_logins"].template, FailedLoginsArgs)
        ELSE IF any_word_in(ProcessWords, prompt_lower)
        THEN format(query_templates["suspicious_processes"].template, SuspiciousProcessesArgs)
        ELSE IF any_word_in(NetworkWords, prompt_lower)
        THEN format(query_templates["network_connections"].template, NetworkConnectionsArgs)
        ELSE IF any_word_in(PrivilegeWords, prompt_lower)
        THEN format(query_templates["privilege_escalation"].template, PrivilegeEscalationArgs)
        ELSE format(query_templates["threat_hunting"].template, ThreatHuntingArgs(prompt))

\* generate_from_prompt: the result of the format call of the first branch taken.
generate_from_prompt(prompt) ==
    LET prompt_lower == lower(prompt)
    IN  IF any_word_in(AuthWords, prompt_lower)
        THEN format(query_templates["failed_logins"].template, FailedLoginsArgs)
        ELSE IF any_word_in(ProcessWords, prompt_lower)
        THEN format(query_templates["suspicious_processes"].template, SuspiciousProcessesArgs)
        ELSE IF any_word_in(NetworkWords, prompt_lower)
        THEN format(query_templates["network_connections"].template, NetworkConnectionsArgs)
        ELSE IF any_word_in(FileWords, prompt_lower)
        THEN format(query_templates["file_modifications"].template, FileModificationsArgs)
        ELSE IF any_word_in(PrivilegeWords, prompt_lower)
        THEN format(query_templates["privilege_escalation"].template, PrivilegeEscalationArgs)
        ELSE format(query_templates["threat_hunting"].template, ThreatHuntingArgs(prompt))

\* The lines a user may type at an input() prompt.
Entries == {"", " 7d ", "a, {b}"}

\* [f'"{x.strip()}"' for x in v.split(',')] joined by ", " and put in parentheses.
quoted_list(v) ==
    LET items == split_comma(v)
    IN  "(" \o join(", ", [i \in DOMAIN items |-> "\"" \o strip(items[i]) \o "\""]) \o ")"

\* The value _generate_from_template stores for one parameter, from the line
\* entered at its prompt.
parameter_value(param, entered) ==
    LET v == strip(entered)
    IN  CASE param = "timeframe" -> or_default(v, "24h")
          [] param = "user_filter" -> or_default(v, "*")
          [] param = "suspicious_commands" ->
                IF v # "" THEN quoted_list(v)
                ELSE "(\"powershell\", \"cmd\", \"wscript\", \"cscript\")"
          [] param = "ports" -> IF v # "" THEN v ELSE "80,443,22,3389"
          [] param = "file_paths" ->
                IF v # "" THEN quoted_list(v)
                ELSE "(\"C:\\\\Windows\\\\System32\", \"C:\\\\Users\", \"C:\\\\Temp\")"
          [] OTHER -> v

\* The loop storing a value only for the prompts that were answered.
collect_parameters_answered_only(template_name, answers) ==
    [param \in {q \in DeclaredParameters(template_name) : strip(answers[q]) # ""} |->
        parameter_value(param, answers[param])]

\* The parameters dict built by the loop over template["parameters"].
collect_parameters(template_name, answers) ==
    [param \in DeclaredParameters(template_name) |->
        parameter_value(param, answers[param])]

\* The try/except around query.format: a KeyError is caught, reported on the
\* console (the printed line after its leading mark: "Missing parameter: "
\* and str() of the KeyError, the quoted name) and turned into the return
\* value ""; any other exception leaves.
render(query, parameters) ==
    LET r == format(query, parameters)
    IN  IF r.exc = "None"
        THEN [ret |-> r.text, exc |-> "None", raised |-> "None", console |-> <<>>]
        ELSE IF r.exc = "KeyError"
        THEN [ret |-> "", exc |-> "KeyError", raised |-> "None",
              console |-> <<"Missing parameter: '" \o r.text \o "'">>]
        ELSE [ret |-> "", exc |-> r.exc, raised |-> r.exc, console |-> <<>>]

_generate_from_template(template_name, answers) ==
    render(query_templates[template_name].template,
           collect_parameters(template_name, answers))

\* _generate_custom_query emitting the filter when either field is given.
_generate_custom_query_either(answers) ==
    LET table == strip(answers["table"])
        timeframe == or_default(strip(answers["timeframe"]), "24h")
        search_field == strip(answers["search_field"])
        search_term == strip(answers["search_term"])
        limit == or_default(strip(answers["limit"]), "100")
        head == table \o "\n| where TimeGenerated >= ago(" \o timeframe \o ")"
        filter == IF search_field # "" \/ search_term # ""
                  THEN "\n| where " \o search_field \o " has \"" \o search_term \o "\" "
                  ELSE ""
    IN  head \o filter \o "\n| take " \o limit

\* self.common_tables: printed by _generate_custom_query, never consulted.
common_tables ==
    <<"SigninLogs", "AuditLogs", "SecurityEvent", "DeviceProcessEvents",
      "DeviceNetworkEvents", "DeviceFileEvents", "DeviceLogonEvents",
      "ThreatIntelligenceIndicator", "SecurityAlert", "SecurityIncident">>

\* The five lines _generate_custom_query reads.
CustomFields == {"table", "timeframe", "search_field", "search_term", "limit"}

_generate_custom_query(answers) ==
    LET table == strip(answers["table"])
        timeframe == or_default(strip(answers["timeframe"]), "24h")
        search_field == strip(answers["search_field"])
        search_term == strip(answers["search_term"])
        limit == or_default(strip(answers["limit"]), "100")
        head == table \o "\n| where TimeGenerated >= ago(" \o timeframe \o ")"
        filter == IF search_field # "" /\ search_term # ""
                  THEN "\n| where " \o search_field \o " has \"" \o search_term \o "\" "
                  ELSE ""
    IN  head \o filter \o "\n| take " \o limit

\* The pieces prompts are made of: keywords of every list in either case, a
\* keyword split in two, and text that matches nothing.
PromptPieces ==
    {"failed", "LOGIN", "Process", "Traffic", "file", "admin", "fi", "le",
     " ", "xyzzy", "{x}"}

RECURSIVE PromptsOf(_)
PromptsOf(n) ==
    IF n = 0 THEN {""}
    ELSE LET shorter == PromptsOf(n - 1)
         IN  shorter \cup {p \o q : p \in shorter, q \in PromptPieces}

Prompts == PromptsOf(MaxPieces)

(***************************************************************************)
(* The state machine of kql_generator: one call on a fresh generator.      *)
(***************************************************************************)
KqlInit ==
    /\ pc = "start"
    /\ op = "none"
    /\ args = NoArgs
    /\ ret = ""
    /\ exc = "None"
    /\ raised = "None"
    /\ console = <<>>

GenerateFromPrompt ==
    \E prompt \in Prompts :
        LET r == generate_from_prompt(prompt)
        IN  /\ pc = "start"
            /\ pc' = "done"
            /\ op' = "generate_from_prompt"
            /\ args' = [prompt |-> prompt]
            /\ ret' = IF r.exc = "None" THEN r.text ELSE ""
            /\ exc' = r.exc
            /\ raised' = r.exc
            /\ console' = <<>>
            /\ UNCHANGED <<grc_vars, cli_vars, obj_vars>>

GenerateFromTemplate ==
    \E name \in Range(TemplateNames) :
        \E answers \in [DeclaredParameters(name) -> Entries] :
            LET r == _generate_from_template(name, answers)
            IN  /\ pc = "start"
                /\ pc' = "done"
                /\ op' = "_generate_from_template"
                /\ args' = [template_name |-> name, answers |-> answers]
                /\ ret' = r.ret
                /\ exc' = r.exc
                /\ raised' = r.raised
                /\ console' = r.console
                /\ UNCHANGED <<grc_vars, cli_vars, obj_vars>>

GenerateCustomQuery ==
    \E answers \in [CustomFields -> Entries] :
        /\ pc = "start"
        /\ pc' = "done"
        /\ op' = "_generate_custom_query"
        /\ args' = answers
        /\ ret' = _generate_custom_query(answers)
        /\ exc' = "None"
        /\ raised' = "None"
        /\ console' = <<>>
        /\ UNCHANGED <<grc_vars, cli_vars, obj_vars>>

(***************************************************************************)
(* nist_800_171_grc.py: NISTGRCAssessment                                  *)
(*                                                                         *)
(* A Control object is created once per identifier and never replaced, so  *)
(* the object is named by its identifier: controls[id] holds the fields of *)
(* the object self.controls[id], and a reference to it is the id.          *)
(***************************************************************************)
\* ControlStatus
ControlStatus ==
    {"compliant", "non_compliant", "not_applicable", "partially_compliant", "not_assessed"}

\* ControlFamily, in the order of the enum.
ControlFamily ==
    <<"3.1", "3.2", "3.3", "3.4", "3.5", "3.6", "3.7", "3.8", "3.9", "3.10",
      "3.11", "3.12", "3.13", "3.14">>

\* The keys of self.controls, in the order of the dict.
ControlIds == <<"3.1.1", "3.1.2", "3.4.1", "3.13.1", "3.14.1">>

\* NISTControl(...), with the defaults of the dataclass and of __post_init__.
NISTControl(control_id, family, title, description, azure_mappings, assessment_method) ==
    [control_id |-> control_id,
     family |-> family,
     title |-> title,
     description |-> description,
     azure_mappings |-> azure_mappings,
     assessment_method |-> assessment_method,
     status |-> "not_assessed",
     findings |-> <<>>,
     recommendations |-> <<>>]

\* _initialize_controls
_initialize_controls ==
    [control_id \in Range(ControlIds) |->
        CASE control_id = "3.1.1" ->
                NISTControl("3.1.1", "3.1", "Limit system access to authorized users",
                    "Limit information system access to authorized users, processes acting on "
                    \o "behalf of authorized users, or devices (including other information systems).",
                    <<"Azure Active Directory", "Conditional Access Policies",
                      "Azure RBAC", "Privileged Identity Management">>,
                    "Review user access controls and authentication mechanisms")
          [] control_id = "3.1.2" ->
                NISTControl("3.1.2", "3.1", "Limit transaction and function access",
                    "Limit information system access to the types of transactions "
                    \o "and functions that authorized users are permitted to execute.",
                    <<"Azure RBAC", "Azure Policy", "Application Gateway", "API Management">>,
                    "Review role-based access controls and function restrictions")
          [] control_id = "3.4.1" ->
                NISTControl("3.4.1", "3.4", "Establish configuration baselines",
                    "Establish and maintain baseline configurations and inventories of "
                    \o "organizational systems (including hardware, software, firmware, and documentation).",
                    <<"Azure Security Center", "Azure Policy",
                      "Azure Resource Manager Templates", "Azure Automation">>,
                    "Review configuration management policies and baseline documentation")
          [] control_id = "3.13.1" ->
                NISTControl("3.13.1", "3.13", "Monitor communications at system boundaries",
                    "Monitor, control, and protect organizational communications (i.e., "
                    \o "information transmitted or received by organizational information systems).",
                    <<"Azure Firewall", "Network Security Groups",
                      "Application Gateway", "Azure Monitor">>,
                    "Review network monitoring and communication protection controls")
          [] control_id = "3.14.1" ->
                NISTControl("3.14.1", "3.14", "Identify and correct system flaws",
                    "Identify, report, and correct information and "
                    \o "information system flaws in a timely manner.",
                    <<"Azure Security Center", "Azure Update Management",
                      "Vulnerability Assessment", "Microsoft Defender for Cloud">>,
                    "Review vulnerability management and patch management processes")]

\* The assignment with findings and recommendations appended to the old ones.
Assigned_accumulating(control, status, findings, recommendations) ==
    [control EXCEPT !.status = status,
                    !.findings = @ \o findings,
                    !.recommendations = @ \o recommendations]

\* The assignment undoing itself on a Control that was assessed before.
Assigned_or_reset(control, status, findings, recommendations) ==
    IF control.status = "not_assessed"
    THEN [control EXCEPT !.status = status,
                         !.findings = findings,
                         !.recommendations = recommendations]
    ELSE [control EXCEPT !.status = "not_assessed",
                         !.findings = <<>>,
                         !.recommendations = <<>>]

Assigned(control, status, findings, recommendations) ==
    [control EXCEPT !.status = status,
                    !.findings = findings,
                    !.recommendations = recommendations]

\* The if/elif chain without the branch of "3.4.1".
simulate_assessment_no_3_4_1(control, control_id) ==
    IF control_id = "3.1.1"
    THEN [control EXCEPT !.status = "compliant",
             !.findings = <<"Azure AD authentication properly configured">>,
             !.recommendations = <<"Consider implementing MFA for all users">>]
    ELSE IF control_id = "3.1.2"
    THEN [control EXCEPT !.status = "partially_compliant",
             !.findings = <<"RBAC roles defined but some over-privileged accounts found">>,
             !.recommendations = <<"Review and right-size user permissions",
                                   "Implement least privilege access">>]
    ELSE IF control_id = "3.13.1"
    THEN [control EXCEPT !.status = "compliant",
             !.findings = <<"Network monitoring configured via Azure Monitor">>,
             !.recommendations = <<"Consider implementing additional DDoS protection">>]
    ELSE IF control_id = "3.14.1"
    THEN [control EXCEPT !.status = "compliant",
             !.findings = <<"Vulnerability assessment enabled", "Update management configured">>,
             !.recommendations = <<"Automate patch deployment where possible">>]
    ELSE control

simulate_assessment(control, control_id) ==
    IF control_id = "3.1.1"
    THEN Assigned(control, "compliant",
             <<"Azure AD authentication properly configured">>,
             <<"Consider implementing MFA for all users">>)
    ELSE IF control_id = "3.1.2"
    THEN Assigned(control, "partially_compliant",
             <<"RBAC roles defined but some over-privileged accounts found">>,
             <<"Review and right-size user permissions", "Implement least privilege access">>)
    ELSE IF control_id = "3.4.1"
    THEN Assigned(control, "non_compliant",
             <<"Configuration baselines not formally documented">>,
             <<"Establish formal configuration baselines", "Implement Infrastructure as Code">>)
    ELSE IF control_id = "3.13.1"
    THEN Assigned(control, "compliant",
             <<"Network monitoring configured via Azure Monitor">>,
             <<"Consider implementing additional DDoS protection">>)
    ELSE IF control_id = "3.14.1"
    THEN Assigned(control, "compliant",
             <<"Vulnerability assessment enabled", "Update management configured">>,
             <<"Automate patch deployment where possible">>)
    ELSE control

\* What a call returns: nothing, one Control, a list of Controls, or the table.
NoReturn == [kind |-> "none", refs |-> <<>>]
ControlRef(control_id) == [kind |-> "control", refs |-> <<control_id>>]
ControlList(refs) == [kind |-> "list", refs |-> refs]
TableRef == [kind |-> "table", refs |-> ControlIds]

\* assess_control returning nothing for an unknown identifier instead of raising.
assess_control_lenient(table, control_id) ==
    IF control_id \notin DOMAIN table
    THEN [controls |-> table, ret |-> [kind |-> "none", refs |-> <<>>], raised |-> "None"]
    ELSE [controls |-> [table EXCEPT ![control_id] = simulate_assessment(@, control_id)],
          ret |-> [kind |-> "control", refs |-> <<control_id>>],
          raised |-> "None"]

\* assess_control assessing every Control of the target's family along with it.
assess_control_with_family(table, control_id) ==
    IF control_id \notin DOMAIN table
    THEN [controls |-> table, ret |-> NoReturn, raised |-> "ValueError"]
    ELSE [controls |-> [id \in DOMAIN table |->
                           IF table[id].family = table[control_id].family
                           THEN simulate_assessment(table[id], id)
                           ELSE table[id]],
          ret |-> ControlRef(control_id),
          raised |-> "None"]

\* assess_control on the table: the table after the call, what is returned and
\* what is raised.
assess_control(table, control_id) ==
    IF control_id \notin DOMAIN table
    THEN [controls |-> table, ret |-> NoReturn, raised |-> "ValueError"]
    ELSE [controls |-> [table EXCEPT ![control_id] = simulate_assessment(@, control_id)],
          ret |-> ControlRef(control_id),
          raised |-> "None"]

\* The loop of assess_control_family assessing every Control it passes and
\* returning those of the family.
RECURSIVE assess_family_from_assessing_all(_, _, _)
assess_family_from_assessing_all(table, family, i) ==
    IF i > Len(ControlIds) THEN [controls |-> table, refs |-> <<>>]
    ELSE LET control_id == ControlIds[i]
             assessed == [table EXCEPT ![control_id] = simulate_assessment(@, control_id)]
             rest == assess_family_from_assessing_all(assessed, family, i + 1)
         IN  [controls |-> rest.controls,
              refs |-> (IF table[control_id].family = family THEN <<control_id>> ELSE <<>>)
                       \o rest.refs]

\* assess_control_family: the loop over self.controls.items() from position i.
RECURSIVE assess_family_from(_, _, _)
assess_family_from(table, family, i) ==
    IF i > Len(ControlIds) THEN [controls |-> table, refs |-> <<>>]
    ELSE LET control_id == ControlIds[i]
         IN  IF table[control_id].family = family
             THEN LET assessed == assess_control(table, control_id)
                      rest == assess_family_from(assessed.controls, family, i + 1)
                  IN  [controls |-> rest.controls, refs |-> assessed.ret.refs \o rest.refs]
             ELSE assess_family_from(table, family, i + 1)

assess_control_family(table, family) ==
    LET done == assess_family_from(table, family, 1)
    IN  [controls |-> done.controls, ret |-> ControlList(done.refs), raised |-> "None"]

\* The loop of assess_all_controls without its first iteration.
RECURSIVE assess_all_from_second(_, _)
assess_all_from_second(table, i) ==
    IF i > Len(ControlIds) THEN table
    ELSE IF i = 1 THEN assess_all_from_second(table, 2)
    ELSE assess_all_from_second(
             [table EXCEPT ![ControlIds[i]] = simulate_assessment(@, ControlIds[i])], i + 1)

\* assess_all_controls: the loop over self.controls from position i.
RECURSIVE assess_all_from(_, _)
assess_all_from(table, i) ==
    IF i > Len(ControlIds) THEN table
    ELSE assess_all_from(assess_control(table, ControlIds[i]).controls, i + 1)

assess_all_controls(table) ==
    [controls |-> assess_all_from(table, 1), ret |-> TableRef, raised |-> "None"]

\* Identifiers that are not in the table.
UnknownIds == {"999.999", "3.1", "3.1.3", ""}

(***************************************************************************)
(* Numbers and dates as text.                                              *)
(***************************************************************************)
Digits == "0123456789"

\* str(n) of an int n >= 0.
RECURSIVE str_int(_)
str_int(n) ==
    IF n < 10 THEN Char(Digits, n + 1)
    ELSE str_int(n \div 10) \o Char(Digits, (n % 10) + 1)

\* The format specifications 02d, 04d and 06d: zeros on the left up to width.
RECURSIVE zero_padded(_, _)
zero_padded(n, width) ==
    LET s == str_int(n)
    IN  IF Len(s) >= width THEN s ELSE "0" \o zero_padded(n, width - 1)

\* The values datetime.now() gives self.assessment_date in the model.
Now ==
    {[year |-> 2024, month |-> 1, day |-> 5, hour |-> 9, minute |-> 30, second |-> 0,
      microsecond |-> 0],
     [year |-> 2026, month |-> 11, day |-> 25, hour |-> 22, minute |-> 7, second |-> 41,
      microsecond |-> 1234]}

\* datetime.isoformat(): the microseconds are left out when they are zero.
isoformat(d) ==
    zero_padded(d.year, 4) \o "-" \o zero_padded(d.month, 2) \o "-" \o zero_padded(d.day, 2)
    \o "T" \o zero_padded(d.hour, 2) \o ":" \o zero_padded(d.minute, 2) \o ":"
    \o zero_padded(d.second, 2)
    \o (IF d.microsecond = 0 THEN "" ELSE "." \o zero_padded(d.microsecond, 6))

\* The format specification .1f applied to (count / total) * 100, for
\* 0 <= count <= total: the quotient in tenths of a percent, rounded to the
\* nearest tenth (a tie goes to the even tenth).
percent_1f(count, total) ==
    LET scaled == count * 1000
        floor == scaled \div total
        twice == 2 * (scaled % total)
        tenths == IF twice > total \/ (twice = total /\ floor % 2 = 1)
                  THEN floor + 1 ELSE floor
    IN  str_int(tenths \div 10) \o "." \o str_int(tenths % 10)

(***************************************************************************)
(* nist_800_171_grc.py: the operations that read the table.                *)
(***************************************************************************)
\* The members of ControlStatus in the order of the enum, which is the order
\* of the keys of the summary dict.
StatusValues ==
    <<"compliant", "non_compliant", "not_applicable", "partially_compliant", "not_assessed">>

\* The number of Controls of the table with the given status.
CountOf(table, status) == Cardinality({id \in DOMAIN table : table[id].status = status})

\* The summary with a key only for the statuses some Control has.
_get_compliance_summary_seen_only(table) ==
    [status \in {table[id].status : id \in DOMAIN table} |->
        Cardinality({id \in DOMAIN table : table[id].status = status})]

\* _get_compliance_summary: every status starts at 0 and each Control adds 1
\* to the count of its status.
_get_compliance_summary(table) ==
    [status \in Range(StatusValues) |-> CountOf(table, status)]

\* The keys of the gaps dict, in the order of the dict.
Severities == <<"critical", "high", "medium", "low">>

\* f"{control_id}: {control.title}"
GapItem(table, control_id) == control_id \o ": " \o table[control_id].title

\* generate_gap_analysis: the loop over self.controls.items() from position i.
RECURSIVE gaps_from(_, _, _)
gaps_from(table, gaps, i) ==
    IF i > Len(ControlIds) THEN gaps
    ELSE LET control_id == ControlIds[i]
             control == table[control_id]
         IN  IF control.status = "non_compliant"
             THEN gaps_from(table,
                      [gaps EXCEPT !.high = Append(@, GapItem(table, control_id))], i + 1)
             ELSE IF control.status = "partially_compliant"
             THEN gaps_from(table,
                      [gaps EXCEPT !.medium = Append(@, GapItem(table, control_id))], i + 1)
             ELSE gaps_from(table, gaps, i + 1)

\* The gap analysis with the partially compliant Controls under high as well.
generate_gap_analysis_all_high(table) ==
    LET hit == SelectSeq(ControlIds,
                   LAMBDA id : table[id].status \in {"non_compliant", "partially_compliant"})
    IN  [critical |-> <<>>,
         high |-> [i \in DOMAIN hit |-> hit[i] \o ": " \o table[hit[i]].title],
         medium |-> <<>>,
         low |-> <<>>]

generate_gap_analysis(table) ==
    gaps_from(table, [critical |-> <<>>, high |-> <<>>, medium |-> <<>>, low |-> <<>>], 1)

(***************************************************************************)
(* json.dumps(value, indent=2) for the values the program serialises:      *)
(* strings, ints, lists of strings and dicts.  A container at nesting      *)
(* depth `level` puts each member on its own line, indented by             *)
(* 2 * (level + 1) spaces, and its closing bracket at 2 * level spaces; an  *)
(* empty container is "[]" or "{}".                                        *)
(***************************************************************************)
\* " " * n, for the indentations of the model (n <= 16).
Spaces(n) == SubSeq("                ", 1, n)

\* The escapes of the characters the model's texts can hold.
json_escape_char(c) ==
    IF c = "\"" THEN "\\\""
    ELSE IF c = "\\" THEN "\\\\"
    ELSE IF c = "\n" THEN "\\n"
    ELSE c

\* The characters that are escaped.
JsonSpecial == {"\"", "\\", "\n"}

\* The text with each special character replaced by its escape, found from
\* left to right.
RECURSIVE json_escape(_)
json_escape(s) ==
    IF \E i \in 1..Len(s) : Char(s, i) \in JsonSpecial
    THEN LET i == CHOOSE i \in 1..Len(s) :
                     /\ Char(s, i) \in JsonSpecial
                     /\ \A j \in 1..(i - 1) : Char(s, j) \notin JsonSpecial
         IN  SubSeq(s, 1, i - 1) \o json_escape_char(Char(s, i))
             \o json_escape(SubSeq(s, i + 1, Len(s)))
    ELSE s

json_string(s) == "\"" \o json_escape(s) \o "\""

\* The lines of a container's members: texts[i] already serialised.
json_lines(texts, level) ==
    join(",\n", [i \in DOMAIN texts |-> Spaces(2 * (level + 1)) \o texts[i]])

json_array(texts, level) ==
    IF Len(texts) = 0 THEN "[]"
    ELSE "[\n" \o json_lines(texts, level) \o "\n" \o Spaces(2 * level) \o "]"

\* A dict with the given keys, in that order, and the serialised values.
json_object(keys, texts, level) ==
    IF Len(keys) = 0 THEN "{}"
    ELSE "{\n"
         \o json_lines([i \in DOMAIN keys |-> json_string(keys[i]) \o ": " \o texts[i]], level)
         \o "\n" \o Spaces(2 * level) \o "}"

\* A list of strings.
json_strings(items, level) ==
    json_array([i \in DOMAIN items |-> json_string(items[i])], level)

(***************************************************************************)
(* nist_800_171_grc.py: the report.                                        *)
(***************************************************************************)
\* The keys of self.controls that the table holds, in the order of the dict.
KeysOf(table) == SelectSeq(ControlIds, LAMBDA id : id \in DOMAIN table)

\* The entry of one Control with the findings left empty.
ControlEntry_no_findings(control) ==
    [title |-> control.title,
     family |-> control.family,
     status |-> control.status,
     azure_mappings |-> control.azure_mappings,
     findings |-> <<>>,
     recommendations |-> control.recommendations]

\* The entry of report_data["controls"] of one Control.
ControlEntry(control) ==
    [title |-> control.title,
     family |-> control.family,
     status |-> control.status,
     azure_mappings |-> control.azure_mappings,
     findings |-> control.findings,
     recommendations |-> control.recommendations]

\* report_data with the assessed Controls as the total.
report_data_assessed_total(table, date) ==
    [assessment_date |-> isoformat(date),
     total_controls |-> Cardinality({id \in DOMAIN table : table[id].status # "not_assessed"}),
     compliance_summary |-> _get_compliance_summary(table),
     controls |-> [control_id \in DOMAIN table |-> ControlEntry(table[control_id])]]

\* report_data of generate_compliance_report.
report_data(table, date) ==
    [assessment_date |-> isoformat(date),
     total_controls |-> Cardinality(DOMAIN table),
     compliance_summary |-> _get_compliance_summary(table),
     controls |-> [control_id \in DOMAIN table |-> ControlEntry(table[control_id])]]

\* json.dumps(report_data, indent=2): the keys in the order they were set.
json_dumps_entry(entry, level) ==
    json_object(
        <<"title", "family", "status", "azure_mappings", "findings", "recommendations">>,
        <<json_string(entry.title), json_string(entry.family), json_string(entry.status),
          json_strings(entry.azure_mappings, level + 1),
          json_strings(entry.findings, level + 1),
          json_strings(entry.recommendations, level + 1)>>,
        level)

json_dumps_summary(summary, level) ==
    LET keys == SelectSeq(StatusValues, LAMBDA status : status \in DOMAIN summary)
    IN  json_object(keys, [i \in DOMAIN keys |-> str_int(summary[keys[i]])], level)

json_dumps_report(data) ==
    LET keys == KeysOf(data.controls)
    IN  json_object(
            <<"assessment_date", "total_controls", "compliance_summary", "controls">>,
            <<json_string(data.assessment_date),
              str_int(data.total_controls),
              json_dumps_summary(data.compliance_summary, 1),
              json_object(keys,
                  [i \in DOMAIN keys |-> json_dumps_entry(data.controls[keys[i]], 2)], 1)>>,
            0)

\* dict.get(key, default)
get(dict, key, default) == IF key \in DOMAIN dict THEN dict[key] ELSE default

\* One line of the tally of the summary report.
TallyLine(label, count, total) ==
    "- " \o label \o ": " \o str_int(count) \o " (" \o percent_1f(count, total) \o "%)\n"

\* The loop at the end of _generate_summary_report listing every Control.
RECURSIVE remediation_items_from_all(_, _)
remediation_items_from_all(data, keys) ==
    IF Len(keys) = 0 THEN ""
    ELSE "- " \o Head(keys) \o ": " \o data.controls[Head(keys)].title \o "\n"
         \o remediation_items_from_all(data, Tail(keys))

\* The loop at the end of _generate_summary_report listing the partially
\* compliant Controls too.
RECURSIVE remediation_items_from_gaps(_, _)
remediation_items_from_gaps(data, keys) ==
    IF Len(keys) = 0 THEN ""
    ELSE (IF data.controls[Head(keys)].status \in {"non_compliant", "partially_compliant"}
          THEN "- " \o Head(keys) \o ": " \o data.controls[Head(keys)].title \o "\n"
          ELSE "")
         \o remediation_items_from_gaps(data, Tail(keys))

\* The lines of the loop at the end of _generate_summary_report, over the keys left.
RECURSIVE remediation_items_from(_, _)
remediation_items_from(data, keys) ==
    IF Len(keys) = 0 THEN ""
    ELSE (IF data.controls[Head(keys)].status = "non_compliant"
          THEN "- " \o Head(keys) \o ": " \o data.controls[Head(keys)].title \o "\n"
          ELSE "")
         \o remediation_items_from(data, Tail(keys))

\* _generate_summary_report: [text, raised]; the divisions raise
\* ZeroDivisionError when total is 0.
_generate_summary_report(data) ==
    LET summary == data.compliance_summary
        total == data.total_controls
    IN  IF total = 0 THEN [text |-> "", raised |-> "ZeroDivisionError"]
        ELSE [text |->
                "\nNIST 800-171 Compliance Assessment Report\n"
                \o "========================================\n"
                \o "Assessment Date: " \o data.assessment_date \o "\n"
                \o "Total Controls Assessed: " \o str_int(total) \o "\n"
                \o "\nCompliance Summary:\n"
                \o TallyLine("Compliant", get(summary, "compliant", 0), total)
                \o TallyLine("Partially Compliant",
                             get(summary, "partially_compliant", 0), total)
                \o TallyLine("Non-Compliant", get(summary, "non_compliant", 0), total)
                \o TallyLine("Not Assessed", get(summary, "not_assessed", 0), total)
                \o "\nHigh Priority Remediation Items:\n"
                \o remediation_items_from(data, KeysOf(data.controls)),
              raised |-> "None"]

\* The values of the format argument: the two the command line allows and one
\* that is neither.
Formats == {"json", "summary", "xml"}

\* generate_compliance_report: [text, raised].
generate_compliance_report(table, date, fmt) ==
    LET data == report_data(table, date)
    IN  IF fmt = "json" THEN [text |-> json_dumps_report(data), raised |-> "None"]
        ELSE IF fmt = "summary" THEN _generate_summary_report(data)
        ELSE [text |-> json_dumps_report(data), raised |-> "None"]

(***************************************************************************)
(* The state machine of nist_800_171_grc: any sequence of calls on one     *)
(* NISTGRCAssessment.                                                      *)
(***************************************************************************)
\* One NISTGRCAssessment, its Controls named by their identifiers: the heap
\* is not used.
NoObjects ==
    /\ heap = <<>>
    /\ instances = <<>>
    /\ self = 0

GrcInit ==
    /\ NoObjects
    /\ controls = _initialize_controls
    /\ assessment_date \in Now
    /\ g_op = "__init__"
    /\ g_arg = ""
    /\ g_ret = NoReturn
    /\ g_raised = "None"

Called(name, argument, result) ==
    /\ g_op' = name
    /\ g_arg' = argument
    /\ controls' = result.controls
    /\ g_ret' = result.ret
    /\ g_raised' = result.raised
    /\ UNCHANGED <<kql_vars, cli_vars, obj_vars, assessment_date>>

AssessControl ==
    \E control_id \in Range(ControlIds) \cup UnknownIds :
        Called("assess_control", control_id, assess_control(controls, control_id))

AssessControlFamily ==
    \E family \in Range(ControlFamily) :
        Called("assess_control_family", family, assess_control_family(controls, family))

AssessAllControls ==
    Called("assess_all_controls", "", assess_all_controls(controls))

\* What a call that reads the table returns: a dict or a string.
Value(kind, value) == [kind |-> kind, refs |-> <<>>, value |-> value]

GetComplianceSummary ==
    Called("_get_compliance_summary", "",
           [controls |-> controls,
            ret |-> Value("dict", _get_compliance_summary(controls)),
            raised |-> "None"])

\* generate_gap_analysis assessing every Control before it looks at them.
GenerateGapAnalysis_assessing ==
    Called("generate_gap_analysis", "",
           [controls |-> assess_all_controls(controls).controls,
            ret |-> Value("dict", generate_gap_analysis(assess_all_controls(controls).controls)),
            raised |-> "None"])

GenerateGapAnalysis ==
    Called("generate_gap_analysis", "",
           [controls |-> controls,
            ret |-> Value("dict", generate_gap_analysis(controls)),
            raised |-> "None"])

GenerateComplianceReport ==
    \E fmt \in Formats :
        \E r \in {generate_compliance_report(controls, assessment_date, fmt)} :
            Called("generate_compliance_report", fmt,
                   [controls |-> controls,
                    ret |-> IF r.raised = "None" THEN Value("str", r.text) ELSE NoReturn,
                    raised |-> r.raised])

(***************************************************************************)
(* No process: the state of the command-line variables while the methods   *)
(* are called directly.                                                    *)
(***************************************************************************)
NoFiles == <<>>

CliIdle ==
    /\ argv = [program |-> "none"]
    /\ stdin = <<>>
    /\ stdout = <<>>
    /\ files = NoFiles
    /\ exit_code = -1

(***************************************************************************)
(* The command lines.                                                      *)
(*                                                                         *)
(* An option that takes a value is <<>> when it is not given (None) and    *)
(* <<value>> when it is.  The marks the programs print in front of their    *)
(* messages are not ASCII; each is written here as a short ASCII mark.      *)
(***************************************************************************)
Opt(values) == {<<>>} \cup {<<v>> : v \in values}

\* The truth value of an option's value in an if: None and "" are false.
Truthy(option) == option # <<>> /\ option[1] # ""

MAG == "(?)"
CROSS == "(x)"
CHECK == "(v)"
MEMO == "(m)"
TOOLS == "(t)"
CHART == "(c)"
BULLET == "*"

\* s * n
RECURSIVE Repeat(_, _)
Repeat(s, n) == IF n = 0 THEN "" ELSE s \o Repeat(s, n - 1)

(***************************************************************************)
(* kql_generator.py: main and the methods it calls, with what they print   *)
(* and read.  A result is [query, stdout, stdin, raised]: the value        *)
(* returned, the print() calls made, the lines input() left unread, and    *)
(* the exception that left the call ("None" when it returned).             *)
(***************************************************************************)
\* list_templates
list_templates ==
    <<"\nAvailable KQL Query Templates:", Repeat("=", 50)>>
    \o [i \in DOMAIN TemplateNames |->
            BULLET \o " " \o TemplateNames[i] \o ": "
            \o query_templates[TemplateNames[i]].description]
    \o <<"">>

\* The position of a parameter in the list of a template's parameters.
IndexOf(params, p) == CHOOSE i \in DOMAIN params : params[i] = p

\* _generate_from_template reading its answers from the terminal: one line
\* per declared parameter, in order; input() raises EOFError when no line is
\* left.
template_from_terminal(template_name, lines) ==
    LET params == query_templates[template_name].parameters
        shown == <<"\n" \o MEMO \o " Configuring '" \o template_name \o "' query...",
                   "Description: " \o query_templates[template_name].description>>
    IN  IF Len(lines) < Len(params)
        THEN [query |-> "", stdout |-> shown, stdin |-> <<>>, raised |-> "EOFError"]
        ELSE LET answers == [p \in Range(params) |-> lines[IndexOf(params, p)]]
                 r == _generate_from_template(template_name, answers)
             IN  [query |-> r.ret,
                  stdout |-> shown \o [i \in DOMAIN r.console |-> CROSS \o " " \o r.console[i]],
                  stdin |-> SubSeq(lines, Len(params) + 1, Len(lines)),
                  raised |-> r.raised]

\* _generate_custom_query reading its five answers from the terminal.
custom_from_terminal(lines) ==
    LET shown == <<"\n" \o TOOLS \o " Custom Query Builder",
                   "Available tables: " \o join(", ", common_tables)>>
    IN  IF Len(lines) < 5
        THEN [query |-> "", stdout |-> shown, stdin |-> <<>>, raised |-> "EOFError"]
        ELSE [query |-> _generate_custom_query(
                            [table |-> lines[1], timeframe |-> lines[2],
                             search_field |-> lines[3], search_term |-> lines[4],
                             limit |-> lines[5]]),
              stdout |-> shown,
              stdin |-> SubSeq(lines, 6, Len(lines)),
              raised |-> "None"]

\* What follows the prints of a call before it: the prints are kept.
After_printing(shown, result) == [result EXCEPT !.stdout = shown \o @]

\* generate_interactive_query
generate_interactive_query(lines) ==
    LET shown == <<"\n" \o MAG \o " KQL Query Generator - Interactive Mode", Repeat("=", 50)>>
                 \o list_templates
    IN  IF Len(lines) = 0
        THEN [query |-> "", stdout |-> shown, stdin |-> <<>>, raised |-> "EOFError"]
        ELSE LET template_choice == lower(strip(Head(lines)))
             IN  IF template_choice = "custom"
                 THEN After_printing(shown, custom_from_terminal(Tail(lines)))
                 ELSE IF template_choice \in Range(TemplateNames)
                 THEN After_printing(shown,
                          template_from_terminal(template_choice, Tail(lines)))
                 ELSE [query |-> "",
                       stdout |-> Append(shown, CROSS \o " Template '" \o template_choice
                                                \o "' not found."),
                       stdin |-> Tail(lines),
                       raised |-> "None"]

\* generate_from_prompt as main calls it: it prints nothing and reads nothing.
prompt_from_argument(prompt, lines) ==
    LET r == generate_from_prompt(prompt)
    IN  [query |-> IF r.exc = "None" THEN r.text ELSE "",
         stdout |-> <<>>, stdin |-> lines, raised |-> r.exc]

\* main from the creation of the generator to the point where query is set:
\* the result of the method called, and whether main returned there.
kql_dispatch(a, lines) ==
    LET going_on(result) ==
            [query |-> result.query, stdout |-> result.stdout, stdin |-> result.stdin,
             raised |-> result.raised, returned |-> FALSE]
    IN  IF a.list_templates
        THEN [query |-> "", stdout |-> list_templates, stdin |-> lines,
              raised |-> "None", returned |-> TRUE]
        ELSE IF a.interactive THEN going_on(generate_interactive_query(lines))
        ELSE IF Truthy(a.prompt) THEN going_on(prompt_from_argument(a.prompt[1], lines))
        ELSE IF Truthy(a.template)
        THEN IF a.template[1] \in Range(TemplateNames)
             THEN going_on(template_from_terminal(a.template[1], lines))
             ELSE [query |-> "",
                   stdout |-> <<CROSS \o " Template '" \o a.template[1] \o "' not found.">>
                              \o list_templates,
                   stdin |-> lines, raised |-> "None", returned |-> TRUE]
        ELSE going_on(generate_interactive_query(lines))

\* The command lines and the terminal input the query generator is run with.
KqlArgvs ==
    [program : {"kql_generator"},
     interactive : BOOLEAN,
     prompt : Opt({"", "failed login", "xyzzy"}),
     template : Opt({"", "failed_logins", "threat_hunting", "nope"}),
     list_templates : BOOLEAN,
     output : Opt({"", "q.kql"})]

KqlStdins ==
    {<<>>, <<"custom", "SigninLogs">>}
    \cup {<<choice, entry, entry, entry, entry, entry>> :
             choice \in {"custom", " Failed_Logins", "nope", "7d"}, entry \in {"", "a, {b}"}}

KqlCliInit ==
    /\ pc = "start"
    /\ op = "main"
    /\ args = NoArgs
    /\ ret = ""
    /\ exc = "None"
    /\ raised = "None"
    /\ console = <<>>
    /\ GrcInit
    /\ argv \in KqlArgvs
    /\ stdin \in KqlStdins
    /\ stdout = <<>>
    /\ files = NoFiles
    /\ exit_code = -1

\* main up to the assignment of query.  An exception that leaves main ends
\* the process with status 1; a return ends it with status 0.
KqlGenerate ==
    /\ argv.program = "kql_generator"
    /\ pc = "start"
    /\ \E d \in {kql_dispatch(argv, stdin)} :
          /\ stdout' = stdout \o d.stdout
          /\ stdin' = d.stdin
          /\ ret' = d.query
          /\ raised' = d.raised
          /\ pc' = IF d.raised # "None" \/ d.returned THEN "done" ELSE "output"
          /\ exit_code' = IF d.raised # "None" THEN 1 ELSE IF d.returned THEN 0 ELSE -1
    /\ UNCHANGED <<op, args, exc, console, argv, files, grc_vars, obj_vars>>

\* The end of main: what it prints and writes for the query it has.
kql_output(query, a) ==
    IF query # ""
    THEN [stdout |-> <<"\n" \o Repeat("=", 60), MAG \o " Generated KQL Query:",
                       Repeat("=", 60), query, Repeat("=", 60)>>
                     \o (IF Truthy(a.output)
                         THEN <<CHECK \o " Query saved to " \o a.output[1]>>
                         ELSE <<>>),
          files |-> IF Truthy(a.output) THEN a.output[1] :> query ELSE NoFiles]
    ELSE [stdout |-> <<CROSS \o " No query generated.">>, files |-> NoFiles]

\* The end of main: the query is printed and saved, or reported missing.
KqlOutput ==
    /\ argv.program = "kql_generator"
    /\ pc = "output"
    /\ stdout' = stdout \o kql_output(ret, argv).stdout
    /\ files' = kql_output(ret, argv).files @@ files
    /\ pc' = "done"
    /\ exit_code' = 0
    /\ UNCHANGED <<op, args, ret, exc, raised, console, argv, stdin, grc_vars, obj_vars>>

(***************************************************************************)
(* nist_800_171_grc.py: main.  A branch of its try block gives             *)
(* [controls, stdout, output, raised, message, exit]: the table after it,  *)
(* the print() calls it made, the output string it set, the exception it   *)
(* raised with str() of it, and the status of sys.exit (-1 when sys.exit   *)
(* was not called).                                                        *)
(***************************************************************************)
UpperChar(c) ==
    IF \E i \in 1..Len(ASCII_LOWER) : Char(ASCII_LOWER, i) = c
    THEN Char(ASCII_UPPER, CHOOSE i \in 1..Len(ASCII_LOWER) : Char(ASCII_LOWER, i) = c)
    ELSE c

IsLetter(c) ==
    \E i \in 1..Len(ASCII_LOWER) : Char(ASCII_LOWER, i) = c \/ Char(ASCII_UPPER, i) = c

\* str.title(): a letter that does not follow a letter is made upper case,
\* a letter that follows one lower case.
RECURSIVE title_from(_, _)
title_from(s, after_letter) ==
    IF Len(s) = 0 THEN ""
    ELSE (IF after_letter THEN LowerChar(Head(s)) ELSE UpperChar(Head(s)))
         \o title_from(Tail(s), IsLetter(Head(s)))

title(s) == title_from(s, FALSE)

\* ', '.join(items) if items else 'None'
joined_or_none(items) == IF Len(items) = 0 THEN "None" ELSE join(", ", items)

\* A branch that went through: no exception, no sys.exit.
Went(table, shown, output) ==
    [controls |-> table, stdout |-> shown, output |-> output, raised |-> "None",
     message |-> "", exit |-> -1]

\* --assess
assess_branch(a, table, date) ==
    LET assessed == assess_all_controls(table).controls
        report == generate_compliance_report(assessed, date, a.format)
    IN  IF report.raised # "None"
        THEN [controls |-> assessed,
              stdout |-> <<MAG \o " Running NIST 800-171 compliance assessment...">>,
              output |-> "", raised |-> report.raised, message |-> "division by zero",
              exit |-> -1]
        ELSE Went(assessed,
                  <<MAG \o " Running NIST 800-171 compliance assessment...",
                    CHECK \o " Assessment completed">>,
                  report.text)

\* --control
control_branch(a, table) ==
    LET control_id == a.control[1]
        shown == <<MAG \o " Assessing control " \o control_id \o "...">>
        r == assess_control(table, control_id)
        control == r.controls[control_id]
    IN  IF r.raised # "None"
        THEN [controls |-> r.controls, stdout |-> shown, output |-> "",
              raised |-> r.raised,
              message |-> "Control " \o control_id \o " not found", exit |-> -1]
        ELSE Went(r.controls, shown,
                  IF a.format = "json"
                  THEN json_object(
                           <<"control_id", "title", "status", "findings", "recommendations">>,
                           <<json_string(control.control_id), json_string(control.title),
                             json_string(control.status),
                             json_strings(control.findings, 1),
                             json_strings(control.recommendations, 1)>>,
                           0)
                  ELSE "\nControl " \o control.control_id \o ": " \o control.title
                       \o "\nStatus: " \o title(control.status)
                       \o "\nFindings: " \o joined_or_none(control.findings)
                       \o "\nRecommendations: " \o joined_or_none(control.recommendations)
                       \o "\n")

\* The text of one Control in the family results.
FamilyResult(control, detailed) ==
    "\n" \o control.control_id \o ": " \o control.title \o "\n"
    \o "Status: " \o title(control.status) \o "\n"
    \o (IF detailed
        THEN "Findings: " \o joined_or_none(control.findings) \o "\n"
             \o "Recommendations: " \o joined_or_none(control.recommendations) \o "\n"
        ELSE "")
    \o Repeat("-", 30) \o "\n"

\* --control-family
family_branch(a, table) ==
    LET family == a.control_family[1]
    IN  IF family \in Range(ControlFamily)
        THEN LET r == assess_control_family(table, family)
                 refs == r.ret.refs
                 control(i) == r.controls[refs[i]]
             IN  Went(r.controls,
                      <<MAG \o " Assessing control family " \o family \o "...">>,
                      IF a.format = "json"
                      THEN json_object(refs,
                               [i \in DOMAIN refs |->
                                   json_object(
                                       <<"title", "status", "findings", "recommendations">>,
                                       <<json_string(control(i).title),
                                         json_string(control(i).status),
                                         json_strings(control(i).findings, 2),
                                         json_strings(control(i).recommendations, 2)>>,
                                       1)],
                               0)
                      ELSE "\nControl Family " \o family \o " Assessment Results:\n"
                           \o Repeat("=", 50) \o "\n"
                           \o join("", [i \in DOMAIN refs |->
                                            FamilyResult(control(i), a.detailed)]))
        ELSE [controls |-> table,
              stdout |-> <<CROSS \o " Invalid control family: " \o family,
                           "Valid families: ["
                           \o join(", ", [i \in DOMAIN ControlFamily |->
                                              "'" \o ControlFamily[i] \o "'"])
                           \o "]">>,
              output |-> "", raised |-> "None", message |-> "", exit |-> 1]

\* The part of the gap report of one severity: nothing when it has no item.
GapSection(gaps, severity) ==
    IF Len(gaps[severity]) = 0 THEN ""
    ELSE "\n" \o title(severity) \o " Priority Gaps:\n"
         \o join("", [i \in DOMAIN gaps[severity] |->
                          "  " \o BULLET \o " " \o gaps[severity][i] \o "\n"])

\* --gap-analysis
gap_branch(a, table) ==
    LET assessed == assess_all_controls(table).controls
        gaps == generate_gap_analysis(assessed)
    IN  Went(assessed, <<MAG \o " Generating gap analysis...">>,
             "\nNIST 800-171 Gap Analysis Report\n" \o Repeat("=", 40) \o "\n"
             \o join("", [i \in DOMAIN Severities |-> GapSection(gaps, Severities[i])]))

\* --report
report_branch(a, table, date) ==
    LET assessed == assess_all_controls(table).controls
        report == generate_compliance_report(assessed, date, a.format)
    IN  IF report.raised # "None"
        THEN [controls |-> assessed,
              stdout |-> <<CHART \o " Generating compliance report...">>,
              output |-> "", raised |-> report.raised, message |-> "division by zero",
              exit |-> -1]
        ELSE Went(assessed, <<CHART \o " Generating compliance report...">>, report.text)

\* parser.print_help(): the help text, of which only the first word is kept.
HelpText == "usage:"

\* The help printed and sys.exit(0) called.
help_branch_exit_0(table) ==
    [controls |-> table, stdout |-> <<"usage:">>, output |-> "", raised |-> "None",
     message |-> "", exit |-> 0]

\* No mode was given: the help is printed and sys.exit(1) is called.
help_branch(table) ==
    [controls |-> table, stdout |-> <<HelpText>>, output |-> "", raised |-> "None",
     message |-> "", exit |-> 1]

\* The if/elif chain of the try block.
grc_dispatch(a, table, date) ==
    IF a.assess THEN assess_branch(a, table, date)
    ELSE IF Truthy(a.control) THEN control_branch(a, table)
    ELSE IF Truthy(a.control_family) THEN family_branch(a, table)
    ELSE IF a.gap_analysis THEN gap_branch(a, table)
    ELSE IF a.report THEN report_branch(a, table, date)
    ELSE help_branch(table)

\* The end of the try block: what it prints and writes for the output it has.
grc_output(output, a) ==
    IF output # ""
    THEN IF Truthy(a.output)
         THEN [stdout |-> <<CHECK \o " Output saved to " \o a.output[1]>>,
               files |-> a.output[1] :> output]
         ELSE [stdout |-> <<output>>, files |-> NoFiles]
    ELSE [stdout |-> <<>>, files |-> NoFiles]

\* The values --format accepts.
FormatChoices == {"json", "summary"}

\* The command lines the assessment tool is run with.
GrcArgvs ==
    [program : {"nist_800_171_grc"},
     assess : BOOLEAN,
     control : Opt({"", "3.4.1", "999.999"}),
     control_family : Opt({"", "3.1", "3.2", "AC"}),
     report : BOOLEAN,
     format : FormatChoices \cup {"xml"},
     gap_analysis : BOOLEAN,
     detailed : BOOLEAN,
     output : Opt({"", "report.txt"})]

GrcCliInit ==
    /\ pc = "start"
    /\ op = "main"
    /\ args = NoArgs
    /\ ret = ""
    /\ exc = "None"
    /\ raised = "None"
    /\ console = <<>>
    /\ GrcInit
    /\ argv \in GrcArgvs
    /\ stdin = <<>>
    /\ stdout = <<>>
    /\ files = NoFiles
    /\ exit_code = -1

\* parse_args refusing a --format outside its choices: argparse reports it on
\* the error stream and exits with status 2.
GrcParseError ==
    /\ argv.program = "nist_800_171_grc"
    /\ pc = "start"
    /\ argv.format \notin FormatChoices
    /\ pc' = "done"
    /\ exit_code' = 2
    /\ UNCHANGED <<op, args, ret, exc, raised, console, argv, stdin, stdout, files, grc_vars, obj_vars>>

\* The if/elif chain of the try block, on a fresh NISTGRCAssessment.
GrcAssess ==
    /\ argv.program = "nist_800_171_grc"
    /\ pc = "start"
    /\ argv.format \in FormatChoices
    /\ \E d \in {grc_dispatch(argv, controls, assessment_date)} :
          /\ controls' = d.controls
          /\ stdout' = stdout \o d.stdout
          /\ ret' = d.output
          /\ raised' = d.raised
          /\ exc' = d.message
          /\ pc' = IF d.raised # "None" THEN "except"
                   ELSE IF d.exit # -1 THEN "done" ELSE "output"
          /\ exit_code' = d.exit
    /\ UNCHANGED <<op, args, console, argv, stdin, files, assessment_date, g_op, g_arg,
                   g_ret, g_raised, obj_vars>>

\* The end of the try block.
GrcOutput ==
    /\ argv.program = "nist_800_171_grc"
    /\ pc = "output"
    /\ stdout' = stdout \o grc_output(ret, argv).stdout
    /\ files' = grc_output(ret, argv).files @@ files
    /\ pc' = "done"
    /\ exit_code' = 0
    /\ UNCHANGED <<op, args, ret, exc, raised, console, argv, stdin, grc_vars, obj_vars>>

\* except Exception as e: the message is printed and sys.exit(1) is called.
GrcExcept ==
    /\ argv.program = "nist_800_171_grc"
    /\ pc = "except"
    /\ stdout' = Append(stdout, CROSS \o " Error: " \o exc)
    /\ pc' = "done"
    /\ exit_code' = 1
    /\ UNCHANGED <<op, args, ret, exc, raised, console, argv, stdin, files, grc_vars, obj_vars>>

(***************************************************************************)
(* Several NISTGRCAssessment objects in one process.                       *)
(*                                                                         *)
(* Here the NISTControl objects live on a heap: a reference is an address, *)
(* self.controls maps each identifier to the address of its object, and an *)
(* attribute assignment changes the object at that address, for everyone   *)
(* who holds the address.  No statement changes a list in place            *)
(* (assess_control binds the attribute to a new list), so a list is its    *)
(* value.                                                                  *)
(***************************************************************************)
\* Object creation handing out the addresses 1, 2, ... again once they are
\* taken: the objects already there are shared.
allocate_shared(h, objects) ==
    IF Len(h) >= Len(objects)
    THEN [heap |-> h, addresses |-> [i \in 1..Len(objects) |-> i]]
    ELSE [heap |-> h \o objects,
          addresses |-> [i \in 1..Len(objects) |-> Len(h) + i]]

\* Object creation: each constructor call makes a new object, at an address
\* no object had before.
allocate(h, objects) ==
    [heap |-> h \o objects,
     addresses |-> [i \in 1..Len(objects) |-> Len(h) + i]]

\* The position of an identifier in the dict.
Position(control_id) == CHOOSE i \in 1..Len(ControlIds) : ControlIds[i] = control_id

\* NISTGRCAssessment(): _initialize_controls builds the five Controls and a new
\* dict of them, and the time is read.
__init__(h, date) ==
    LET made == allocate(h, [i \in 1..Len(ControlIds) |-> _initialize_controls[ControlIds[i]]])
    IN  [heap |-> made.heap,
         self |-> [controls |-> [control_id \in Range(ControlIds) |->
                                    made.addresses[Position(control_id)]],
                   assessment_date |-> date]]

\* self.controls with each reference followed: id -> the fields of the object.
table_of(h, instance) ==
    [control_id \in DOMAIN instance.controls |-> h[instance.controls[control_id]]]

\* The heap after the attribute assignments that turn the objects of
\* instance's table into those of table.
assigned_through(h, instance, table) ==
    [a \in DOMAIN h |->
        IF \E control_id \in DOMAIN instance.controls : instance.controls[control_id] = a
        THEN table[CHOOSE control_id \in DOMAIN instance.controls :
                       instance.controls[control_id] = a]
        ELSE h[a]]

\* The arguments the methods are called with on each instance.
SomeFamilies == {"3.1", "3.2"}
SomeIds == {"3.1.2", "3.4.1", "999.999"}

\* The process before any NISTGRCAssessment is constructed (controls and
\* assessment_date, the fields of the single assessment, are not used).
ObjectsInit ==
    /\ KqlInit
    /\ CliIdle
    /\ NoObjects
    /\ controls = _initialize_controls
    /\ assessment_date = CHOOSE d \in Now : TRUE
    /\ g_op = "none"
    /\ g_arg = ""
    /\ g_ret = NoReturn
    /\ g_raised = "None"

Construct ==
    /\ Len(instances) < MaxInstances
    /\ \E date \in Now :
           \E made \in {__init__(heap, date)} :
               /\ heap' = made.heap
               /\ instances' = Append(instances, made.self)
    /\ self' = Len(instances) + 1
    /\ g_op' = "__init__"
    /\ g_arg' = ""
    /\ g_ret' = NoReturn
    /\ g_raised' = "None"
    /\ UNCHANGED <<kql_vars, cli_vars, controls, assessment_date>>

\* A method called on instance i: result is what it does to the table of i.
CalledOn(i, name, argument, result) ==
    /\ self' = i
    /\ g_op' = name
    /\ g_arg' = argument
    /\ heap' = assigned_through(heap, instances[i], result.controls)
    /\ g_ret' = result.ret
    /\ g_raised' = result.raised
    /\ UNCHANGED <<kql_vars, cli_vars, controls, assessment_date, instances>>

AssessControlOn ==
    \E i \in DOMAIN instances : \E control_id \in SomeIds :
        CalledOn(i, "assess_control", control_id,
                 assess_control(table_of(heap, instances[i]), control_id))

AssessControlFamilyOn ==
    \E i \in DOMAIN instances : \E family \in SomeFamilies :
        CalledOn(i, "assess_control_family", family,
                 assess_control_family(table_of(heap, instances[i]), family))

AssessAllControlsOn ==
    \E i \in DOMAIN instances :
        CalledOn(i, "assess_all_controls", "",
                 assess_all_controls(table_of(heap, instances[i])))

(***************************************************************************)
(* Specifications.                                                         *)
(***************************************************************************)
Init == KqlInit /\ GrcInit /\ CliIdle

\* kql_generator: one call of one method.
Next == GenerateFromPrompt \/ GenerateFromTemplate \/ GenerateCustomQuery

Spec == Init /\ [][Next]_vars

\* The keyword arguments the rendering step is tried with: values for any of
\* the template's declared parameters and for a name no template has.
RenderValues == {"", "7d"}

RenderArgs(name) ==
    UNION {[S -> RenderValues] : S \in SUBSET (DeclaredParameters(name) \cup {"extra"})}

\* The rendering step of _generate_from_template on its own: a template of the
\* table and any keyword arguments.
RenderInit ==
    /\ pc = "start"
    /\ op = "render"
    /\ args \in UNION {{[template_name |-> name, parameters |-> kwargs] :
                            kwargs \in RenderArgs(name)} : name \in Range(TemplateNames)}
    /\ ret = ""
    /\ exc = "None"
    /\ raised = "None"
    /\ console = <<>>
    /\ GrcInit
    /\ CliIdle

Render ==
    LET r == render(query_templates[args.template_name].template, args.parameters)
    IN  /\ pc = "start"
        /\ op = "render"
        /\ pc' = "done"
        /\ ret' = r.ret
        /\ exc' = r.exc
        /\ raised' = r.raised
        /\ console' = r.console
        /\ UNCHANGED <<op, args>>
        /\ UNCHANGED <<grc_vars, cli_vars, obj_vars>>

SpecRender == RenderInit /\ [][Render]_vars

\* nist_800_171_grc: calls in any order.
GrcNext ==
    \/ AssessControl
    \/ AssessControlFamily
    \/ AssessAllControls
    \/ GetComplianceSummary
    \/ GenerateGapAnalysis
    \/ GenerateComplianceReport

SpecGRC == Init /\ [][GrcNext]_vars

\* kql_generator run from the command line.
KqlCliNext == KqlGenerate \/ KqlOutput

SpecKqlCli == KqlCliInit /\ [][KqlCliNext]_vars

\* nist_800_171_grc run from the command line.
GrcCliNext == GrcParseError \/ GrcAssess \/ GrcOutput \/ GrcExcept

SpecGrcCli == GrcCliInit /\ [][GrcCliNext]_vars

\* Several NISTGRCAssessment objects: constructions and assessments in any order.
ObjectsNext ==
    \/ Construct
    \/ AssessControlOn
    \/ AssessControlFamilyOn
    \/ AssessAllControlsOn

SpecObjects == ObjectsInit /\ [][ObjectsNext]_vars

(***************************************************************************)
(* Properties of kql_generator, checked under Spec.                        *)
(***************************************************************************)
\* The five trigger sets in priority order, with the Rule each one selects,
\* the table that Rule's query reads and the values the prompt path fills in.
TriggerSets ==
    <<{"failed", "login", "signin", "authentication"},
      {"process", "execution", "command"},
      {"network", "connection", "traffic"},
      {"file", "creation", "modification"},
      {"privilege", "escalation", "admin"}>>

TriggerRule ==
    <<"failed_logins", "suspicious_processes", "network_connections",
      "file_modifications", "privilege_escalation">>

TriggerTable ==
    <<"SigninLogs", "DeviceProcessEvents", "DeviceNetworkEvents",
      "DeviceFileEvents", "SecurityEvent">>

TriggerArgs ==
    <<FailedLoginsArgs, SuspiciousProcessesArgs, NetworkConnectionsArgs,
      FileModificationsArgs, PrivilegeEscalationArgs>>

\* Two characters that are the same letter, whatever their case.
SameLetter(a, b) ==
    \/ a = b
    \/ \E i \in 1..Len(ASCII_UPPER) : {a, b} = {Char(ASCII_UPPER, i), Char(ASCII_LOWER, i)}

\* word occurs in s, ignoring case.
Mentions(s, word) ==
    \E i \in 0..(Len(s) - Len(word)) :
        \A k \in 1..Len(word) : SameLetter(Char(s, i + k), Char(word, k))

\* The trigger sets that have a word occurring in the prompt.
TriggersIn(prompt) ==
    {n \in DOMAIN TriggerSets : \E word \in TriggerSets[n] : Mentions(prompt, word)}

Least(S) == CHOOSE n \in S : \A m \in S : n <= m

StartsWith(s, prefix) == Len(prefix) <= Len(s) /\ SubSeq(s, 1, Len(prefix)) = prefix
EndsWith(s, suffix) ==
    Len(suffix) <= Len(s) /\ SubSeq(s, Len(s) - Len(suffix) + 1, Len(s)) = suffix

\* The query of the n-th trigger set's Rule.
Rendering(n) == format(query_templates[TriggerRule[n]].template, TriggerArgs[n]).text

\* The query of the fallback Rule for a prompt.
FallbackQuery(prompt) ==
    "SecurityEvent\n| where TimeGenerated >= ago(24h)\n| where Activity has \""
    \o prompt
    \o "\"\n| project TimeGenerated, TimeGenerated, Computer, Account, Activity\n| order by TimeGenerated desc\n| take 100"

PromptCall == pc = "done" /\ op = "generate_from_prompt"
TemplateCall == pc = "done" /\ op = "_generate_from_template"
CustomCall == pc = "done" /\ op = "_generate_custom_query"

\* C1: a prompt that matches one or several trigger sets gets the query of the
\* earliest matching set in the fixed order, and the query of no other set.
PromptFirstMatchWins ==
    (PromptCall /\ TriggersIn(args.prompt) # {}) =>
        LET first == Least(TriggersIn(args.prompt))
        IN  /\ raised = "None"
            /\ ret = Rendering(first)
            /\ StartsWith(ret, TriggerTable[first] \o "\n")
            /\ \A n \in DOMAIN TriggerSets \ {first} : ret # Rendering(n)

\* C1 witness: "fileLOGIN" matches the file set and the authentication set, and
\* the failed_logins query was returned.
PromptFirstMatchWins_witness ==
    /\ PromptCall
    /\ args.prompt = "fileLOGIN"
    /\ TriggersIn(args.prompt) = {1, 4}
    /\ StartsWith(ret, "SigninLogs\n")

\* C2: a prompt that has a word of exactly one trigger set gets the query of
\* the Rule mapped to that set, which reads that Rule's table.
PromptSingleTriggerSet ==
    \A n \in DOMAIN TriggerSets :
        (PromptCall /\ TriggersIn(args.prompt) = {n}) =>
            /\ ret = Rendering(n)
            /\ StartsWith(ret, TriggerTable[n] \o "\n")

\* C2 witness: a prompt of the network set alone returned the
\* DeviceNetworkEvents query.
PromptSingleTriggerSet_witness ==
    /\ PromptCall
    /\ args.prompt = " Traffic"
    /\ TriggersIn(args.prompt) = {3}
    /\ StartsWith(ret, "DeviceNetworkEvents\n")

\* C3: generate_from_prompt never fails and returns one non-empty query, the
\* query of a Rule; with no trigger set matching, as for the empty prompt, it
\* is the fallback threat_hunting query searching for the prompt.
PromptTotal ==
    PromptCall =>
        /\ raised = "None"
        /\ Len(ret) > 0
        /\ \/ ret = FallbackQuery(args.prompt)
           \/ \E n \in DOMAIN TriggerSets : ret = Rendering(n)
        /\ TriggersIn(args.prompt) = {} => ret = FallbackQuery(args.prompt)
        /\ args.prompt = "" => TriggersIn(args.prompt) = {}

\* C3 witness: the empty prompt returned the fallback query.
PromptTotal_witness ==
    /\ PromptCall
    /\ args.prompt = ""
    /\ ret = FallbackQuery("")

\* C4: for every Rule of the table, the placeholders of its template are
\* exactly its declared parameters; so the values _generate_from_template asks
\* for are exactly the placeholders of the template it renders.
TemplatePlaceholdersDeclared ==
    /\ DOMAIN query_templates = Range(TemplateNames)
    /\ \A name \in DOMAIN query_templates :
           Placeholders(query_templates[name].template) = DeclaredParameters(name)
    /\ TemplateCall =>
           DOMAIN args.answers = Placeholders(query_templates[args.template_name].template)

\* C4 witness: the threat_hunting template, with its six placeholders, was
\* rendered from its declared parameters.
TemplatePlaceholdersDeclared_witness ==
    /\ TemplateCall
    /\ args.template_name = "threat_hunting"
    /\ Cardinality(Placeholders(query_templates["threat_hunting"].template)) = 6
    /\ DOMAIN args.answers = Placeholders(query_templates["threat_hunting"].template)
    /\ exc = "None"

\* C5: _generate_from_template, whatever is entered, builds a value for every
\* declared parameter and returns the formatted query without reaching the
\* missing-parameter branch; and every branch of generate_from_prompt passes
\* all placeholders of the template it formats.
RenderingNeverMissesParameter ==
    /\ TemplateCall =>
           /\ exc = "None"
           /\ raised = "None"
           /\ console = <<>>
           /\ Len(ret) > 0
           /\ DOMAIN collect_parameters(args.template_name, args.answers)
                  = Placeholders(query_templates[args.template_name].template)
    /\ PromptCall => exc = "None"
    /\ \A n \in DOMAIN TriggerSets :
           Placeholders(query_templates[TriggerRule[n]].template) \subseteq DOMAIN TriggerArgs[n]
    /\ Placeholders(query_templates["threat_hunting"].template)
           \subseteq DOMAIN ThreatHuntingArgs("")

\* C5 witness: threat_hunting was rendered with nothing entered at any prompt.
RenderingNeverMissesParameter_witness ==
    /\ TemplateCall
    /\ args.template_name = "threat_hunting"
    /\ \A param \in DOMAIN args.answers : args.answers[param] = ""
    /\ exc = "None"
    /\ Len(ret) > 0

\* C7: the custom query is the table line, the time filter and the take
\* clause in that order, with the filter clause between the last two exactly
\* when search field and search term are both non-empty; an empty timeframe
\* becomes "24h", an empty limit "100", and the table is whatever was entered
\* (the fields are the lines read, surrounding whitespace stripped).
CustomQueryShape ==
    CustomCall =>
        LET table == strip(args["table"])
            search_field == strip(args["search_field"])
            search_term == strip(args["search_term"])
            time_clause ==
                "\n| where TimeGenerated >= ago("
                \o (IF strip(args["timeframe"]) = "" THEN "24h" ELSE strip(args["timeframe"]))
                \o ")"
            take_clause ==
                "\n| take " \o (IF strip(args["limit"]) = "" THEN "100" ELSE strip(args["limit"]))
            filter_clause == "\n| where " \o search_field \o " has \"" \o search_term \o "\" "
            between == SubSeq(ret, Len(table) + Len(time_clause) + 1, Len(ret) - Len(take_clause))
        IN  /\ Len(ret) >= Len(table) + Len(time_clause) + Len(take_clause)
            /\ StartsWith(ret, table \o time_clause)
            /\ EndsWith(ret, take_clause)
            /\ between = (IF search_field # "" /\ search_term # "" THEN filter_clause ELSE "")

\* C7 witness: a table outside common_tables, no timeframe and no limit
\* entered, both search entries given: the filter clause is there.
CustomQueryShape_witness ==
    /\ CustomCall
    /\ strip(args["table"]) \notin Range(common_tables)
    /\ args["timeframe"] = ""
    /\ args["limit"] = ""
    /\ strip(args["search_field"]) # ""
    /\ strip(args["search_term"]) # ""
    /\ ret = "a, {b}\n| where TimeGenerated >= ago(24h)\n| where 7d has \"7d\" \n| take 100"

(***************************************************************************)
(* The rendering step with a placeholder missing, checked under SpecRender.*)
(***************************************************************************)
RenderCall == pc = "done" /\ op = "render"

\* The placeholders of the rendered template that the keyword arguments lack.
MissingPlaceholders ==
    Placeholders(query_templates[args.template_name].template) \ DOMAIN args.parameters

UnknownControlRaises ==
    [][(g_op' = "assess_control" /\ g_arg' \notin DOMAIN controls) =>
           /\ g_raised' = "ValueError"
           /\ controls' = controls]_vars

\* C8 witness: an unknown identifier was refused on a partly assessed table.
UnknownControlRaises_witness ==
    /\ g_op = "assess_control"
    /\ g_arg = "999.999"
    /\ g_raised = "ValueError"
    /\ controls["3.4.1"].status = "non_compliant"
    /\ controls["3.1.2"].findings # <<>>
    /\ controls["3.1.1"].status = "not_assessed"

\* C9: from every reachable table, assessing twice leaves the table that
\* assessing once leaves, and returns the same: for assess_control on every
\* known identifier, for assess_control_family and for assess_all_controls.
AssessmentIdempotent ==
    /\ \A control_id \in Range(ControlIds) :
           LET once == assess_control(controls, control_id)
           IN  assess_control(once.controls, control_id) = once
    /\ \A family \in Range(ControlFamily) :
           LET once == assess_control_family(controls, family)
           IN  assess_control_family(once.controls, family) = once
    /\ LET once == assess_all_controls(controls)
       IN  assess_all_controls(once.controls) = once

\* C9 witness: "3.1.2" was assessed, and assessing it again changes nothing:
\* its findings and recommendations are the same lists, not longer ones.
AssessmentIdempotent_witness ==
    /\ g_op = "assess_control"
    /\ g_arg = "3.1.2"
    /\ controls["3.1.2"].status = "partially_compliant"
    /\ Len(controls["3.1.2"].recommendations) = 2
    /\ assess_control(controls, "3.1.2").controls = controls

\* The status hardcoded for each identifier.
HardcodedStatus ==
    [control_id \in Range(ControlIds) |->
        CASE control_id = "3.1.1" -> "compliant"
          [] control_id = "3.1.2" -> "partially_compliant"
          [] control_id = "3.4.1" -> "non_compliant"
          [] control_id = "3.13.1" -> "compliant"
          [] control_id = "3.14.1" -> "compliant"]

\* C10: after assess_control on a known identifier the Control returned is
\* the table's entry for it, with the status hardcoded for the identifier and
\* non-empty findings and recommendations, the ones the same call gives on a
\* fresh table.
AssessControlOutcome ==
    (g_op = "assess_control" /\ g_arg \in Range(ControlIds)) =>
        LET fresh == assess_control(_initialize_controls, g_arg).controls[g_arg]
        IN  /\ g_raised = "None"
            /\ g_ret = [kind |-> "control", refs |-> <<g_arg>>]
            /\ controls[g_arg].control_id = g_arg
            /\ controls[g_arg].status = HardcodedStatus[g_arg]
            /\ controls[g_arg].findings # <<>>
            /\ controls[g_arg].recommendations # <<>>
            /\ controls[g_arg].findings = fresh.findings
            /\ controls[g_arg].recommendations = fresh.recommendations

\* C10 witness: "3.4.1" was assessed on a table where "3.1.1" had been
\* assessed before, was returned, and is non_compliant.
AssessControlOutcome_witness ==
    /\ g_op = "assess_control"
    /\ g_arg = "3.4.1"
    /\ g_ret = [kind |-> "control", refs |-> <<"3.4.1">>]
    /\ controls["3.4.1"].status = "non_compliant"
    /\ controls["3.4.1"].findings = <<"Configuration baselines not formally documented">>
    /\ controls["3.1.1"].status = "compliant"

(***************************************************************************)
(* Properties of the operations that read the table, checked under         *)
(* SpecGRC.                                                                *)
(***************************************************************************)
\* The sum of the values of a dict of ints.
RECURSIVE SumOver(_, _)
SumOver(f, keys) ==
    IF keys = {} THEN 0
    ELSE LET k == CHOOSE k \in keys : TRUE
         IN  f[k] + SumOver(f, keys \ {k})

SumOf(f) == SumOver(f, DOMAIN f)

SummaryCall == g_op = "_get_compliance_summary"

\* C11: in every state reachable by assess_control, assess_control_family and
\* assess_all_controls, the initial state included, the compliance summary of
\* the table has exactly the five status names as keys, each with a count
\* that is a natural number (zero when no Control has the status), and the
\* five counts add up to the number of Controls, 5; this is what a call of
\* _get_compliance_summary returns, after assess_all_controls in particular.
ComplianceSummaryComplete ==
    LET summary == _get_compliance_summary(controls)
    IN  /\ DOMAIN summary = ControlStatus
        /\ \A status \in ControlStatus : summary[status] \in Nat
        /\ SumOf(summary) = Cardinality(DOMAIN controls)
        /\ SumOf(summary) = 5
        /\ SummaryCall =>
              /\ g_ret.kind = "dict"
              /\ g_ret.value = summary
              /\ g_raised = "None"

\* C11 witness: the summary was asked for with two Controls unassessed, and
\* was returned with a zero for not_applicable.
ComplianceSummaryComplete_witness ==
    /\ SummaryCall
    /\ g_ret.value["not_assessed"] = 2
    /\ g_ret.value["compliant"] = 2
    /\ g_ret.value["non_compliant"] = 1
    /\ g_ret.value["partially_compliant"] = 0
    /\ g_ret.value["not_applicable"] = 0

\* The summary of the fully assessed reference table.
FullAssessmentSummary ==
    [compliant |-> 3, partially_compliant |-> 1, non_compliant |-> 1,
     not_applicable |-> 0, not_assessed |-> 0]

\* Every Control has been assessed: the state of the table after
\* assess_all_controls.
FullyAssessed == \A id \in DOMAIN controls : controls[id].status # "not_assessed"

\* C12: whatever was assessed before, the step that calls assess_all_controls
\* leaves a table whose compliance summary is compliant 3, partially_compliant
\* 1, non_compliant 1, not_applicable 0, not_assessed 0, and that is what
\* _get_compliance_summary returns when it is called next.
SummaryAfterFullAssessment ==
    [][/\ g_op' = "assess_all_controls" =>
            _get_compliance_summary(controls') = FullAssessmentSummary
       /\ (g_op = "assess_all_controls" /\ g_op' = "_get_compliance_summary") =>
            g_ret'.value = FullAssessmentSummary]_vars

\* C12 witness: _get_compliance_summary was called on the fully assessed
\* table and returned the expected summary.
SummaryAfterFullAssessment_witness ==
    /\ SummaryCall
    /\ FullyAssessed
    /\ g_ret.value = FullAssessmentSummary

\* The Controls an item of a bucket names: the item starts with the
\* identifier followed by ": ".
Names(item, id) == StartsWith(item, id \o ": ")

InBucket(bucket, id) == \E i \in DOMAIN bucket : Names(bucket[i], id)

GapCall == g_op = "generate_gap_analysis"

\* C13: in every reachable state the gap analysis of the table has exactly
\* the buckets critical, high, medium and low; a Control is in high exactly
\* when it is non_compliant and in medium exactly when it is
\* partially_compliant, once each, so compliant, not_applicable and
\* not_assessed Controls are in no bucket; critical and low are empty; after
\* assess_all_controls high holds exactly 3.4.1 and medium exactly 3.1.2.
GapBuckets ==
    LET gaps == generate_gap_analysis(controls)
    IN  /\ DOMAIN gaps = Range(Severities)
        /\ gaps.critical = <<>>
        /\ gaps.low = <<>>
        /\ \A id \in DOMAIN controls :
              /\ InBucket(gaps.high, id) <=> controls[id].status = "non_compliant"
              /\ InBucket(gaps.medium, id) <=> controls[id].status = "partially_compliant"
        /\ Len(gaps.high) = CountOf(controls, "non_compliant")
        /\ Len(gaps.medium) = CountOf(controls, "partially_compliant")
        /\ g_op = "assess_all_controls" =>
              /\ gaps.high = <<"3.4.1: Establish configuration baselines">>
              /\ gaps.medium = <<"3.1.2: Limit transaction and function access">>
        /\ GapCall =>
              /\ g_ret.kind = "dict"
              /\ g_ret.value = gaps
              /\ g_raised = "None"

\* C13 witness: the gap analysis was returned with 3.4.1 under high and
\* 3.1.2 under medium while "3.1.1" is compliant and "3.14.1" is unassessed.
GapBuckets_witness ==
    /\ GapCall
    /\ InBucket(g_ret.value.high, "3.4.1")
    /\ InBucket(g_ret.value.medium, "3.1.2")
    /\ controls["3.1.1"].status = "compliant"
    /\ controls["3.14.1"].status = "not_assessed"
    /\ ~InBucket(g_ret.value.high, "3.1.1")
    /\ ~InBucket(g_ret.value.medium, "3.14.1")

\* The Controls of a family, in the order of the table.
MembersOf(table, family) == SelectSeq(ControlIds, LAMBDA id : table[id].family = family)

\* The families that have no Control in the table.
EmptyFamilies ==
    {family \in Range(ControlFamily) : \A id \in DOMAIN controls : controls[id].family # family}

\* C14: every step that calls assess_control_family(family) raises nothing
\* and returns, in the order of the table, exactly the Controls whose family
\* is the one given, each of them no longer not_assessed; for a family without
\* Controls that is the empty list; the Controls of the other families are
\* left as they were.
FamilyAssessment ==
    [][g_op' = "assess_control_family" =>
          LET members == MembersOf(controls, g_arg')
          IN  /\ g_arg' \in Range(ControlFamily)
              /\ g_raised' = "None"
              /\ g_ret' = [kind |-> "list", refs |-> members]
              /\ g_arg' \in EmptyFamilies => g_ret'.refs = <<>>
              /\ DOMAIN controls' = DOMAIN controls
              /\ \A id \in DOMAIN controls :
                    IF id \in Range(members)
                    THEN /\ controls'[id].family = g_arg'
                         /\ controls'[id].status # "not_assessed"
                    ELSE controls'[id] = controls[id]]_vars

\* C14 witness: family "3.1" was assessed; its two Controls were returned in
\* table order and are assessed, while "3.4.1" is still not_assessed.
FamilyAssessment_witness ==
    /\ g_op = "assess_control_family"
    /\ g_arg = "3.1"
    /\ g_ret = [kind |-> "list", refs |-> <<"3.1.1", "3.1.2">>]
    /\ controls["3.1.1"].status = "compliant"
    /\ controls["3.1.2"].status = "partially_compliant"
    /\ controls["3.4.1"].status = "not_assessed"
    /\ Cardinality(EmptyFamilies) = 10

\* C15: after assess_all_controls, which returns the table itself with the
\* identifiers it had, no Control of the table is not_assessed: the branch of
\* assess_control for each identifier of the table sets another status.
FullAssessmentCoversTable ==
    g_op = "assess_all_controls" =>
        /\ g_raised = "None"
        /\ g_ret = [kind |-> "table", refs |-> ControlIds]
        /\ Range(g_ret.refs) = DOMAIN controls
        /\ DOMAIN controls = DOMAIN _initialize_controls
        /\ \A id \in DOMAIN controls :
              /\ controls[id].status # "not_assessed"
              /\ simulate_assessment(_initialize_controls[id], id).status # "not_assessed"

\* C15 witness: assess_all_controls returned the table and "3.4.1", the last
\* branch to matter, is non_compliant.
FullAssessmentCoversTable_witness ==
    /\ g_op = "assess_all_controls"
    /\ g_ret.kind = "table"
    /\ controls["3.4.1"].status = "non_compliant"
    /\ controls["3.14.1"].status = "compliant"
    /\ \A id \in DOMAIN controls : controls[id].status # "not_assessed"

(***************************************************************************)
(* Properties of the report, checked under SpecGRC on the text that        *)
(* generate_compliance_report returned.  In the JSON text a key of the     *)
(* top-level dict is at the start of a line after two spaces, a key one    *)
(* level down after four.                                                  *)
(***************************************************************************)
ReportCall == g_op = "generate_compliance_report"
JsonReport == ReportCall /\ g_arg # "summary"
SummaryReport == ReportCall /\ g_arg = "summary"

\* How many times the fragment occurs in the text.
Occurrences(fragment, text) ==
    Cardinality({i \in 1..(Len(text) - Len(fragment) + 1) :
                    SubSeq(text, i, i + Len(fragment) - 1) = fragment})

\* The line of a top-level field with the text of its value.
TopLevel(key, value) == "\n  \"" \o key \o "\": " \o value

\* The compliance_summary field for the current table: the five status names,
\* each with the number of Controls that have the status.
TallyField ==
    TopLevel("compliance_summary",
        "{\n"
        \o join(",\n", [i \in DOMAIN StatusValues |->
                 "    \"" \o StatusValues[i] \o "\": "
                 \o str_int(CountOf(controls, StatusValues[i]))])
        \o "\n  },\n")

\* The entry of one Control for its current values.
EntryField(id) ==
    "\n    \"" \o id \o "\": {"
    \o "\n      \"title\": \"" \o controls[id].title \o "\","
    \o "\n      \"family\": \"" \o controls[id].family \o "\","
    \o "\n      \"status\": \"" \o controls[id].status \o "\","
    \o "\n      \"azure_mappings\": " \o json_strings(controls[id].azure_mappings, 3) \o ","
    \o "\n      \"findings\": " \o json_strings(controls[id].findings, 3) \o ","
    \o "\n      \"recommendations\": " \o json_strings(controls[id].recommendations, 3)
    \o "\n    }"

\* C16: the JSON text generate_compliance_report returns is one dict with
\* exactly the four top-level fields assessment_date, total_controls,
\* compliance_summary and controls; total_controls is the number of Controls
\* of the table, compliance_summary is the tally of the five statuses over
\* the current table, and controls has one entry per identifier of the table
\* and no other, with the Control's current status, findings and
\* recommendations.
StructuredReportSchema ==
    JsonReport =>
        LET text == g_ret.value
        IN  /\ g_raised = "None"
            /\ g_ret.kind = "str"
            /\ StartsWith(text, "{\n  \"assessment_date\": \"" \o isoformat(assessment_date)
                                \o "\",\n")
            /\ EndsWith(text, "\n  }\n}")
            /\ Occurrences("\n  \"", text) = 4
            /\ Occurrences(TopLevel("total_controls",
                   str_int(Cardinality(DOMAIN controls)) \o ",\n"), text) = 1
            /\ Occurrences(TallyField, text) = 1
            /\ Occurrences(TopLevel("controls", "{\n"), text) = 1
            /\ Occurrences("\n    \"", text) = Len(StatusValues) + Cardinality(DOMAIN controls)
            /\ \A id \in DOMAIN controls : Occurrences(EntryField(id), text) = 1

\* C16 witness: a JSON report of a table with "3.4.1" non_compliant, its
\* finding listed, and two Controls still unassessed.
StructuredReportSchema_witness ==
    /\ ReportCall
    /\ g_arg = "json"
    /\ in_str("\"not_assessed\": 2\n", g_ret.value)
    /\ in_str("\"status\": \"non_compliant\"", g_ret.value)
    /\ in_str("\"Configuration baselines not formally documented\"", g_ret.value)
    /\ controls["3.4.1"].status = "non_compliant"

\* The label of a status in the human-readable summary, as its tally line
\* would print it.
SummaryLabel ==
    [compliant |-> "Compliant", partially_compliant |-> "Partially Compliant",
     non_compliant |-> "Non-Compliant", not_assessed |-> "Not Assessed",
     not_applicable |-> "Not Applicable"]

\* The text has a tally entry for the status: its key with a count in the
\* JSON text, or a "- <label>: " line in the summary.
TallyPresent(text, status) ==
    \/ in_str("\"" \o status \o "\": ", text)
    \/ in_str("\n- " \o SummaryLabel[status] \o ": ", text)

\* The text has detail for the Control: an entry or a line that names it.
DetailPresent(text, id) ==
    \/ in_str("\n    \"" \o id \o "\": {", text)
    \/ in_str("\n- " \o id \o ": ", text)

\* C17 as stated: every report, structured or summary, has a tally entry for
\* each of the five statuses and detail for every Control.
ReportPresentsAllStatuses ==
    ReportCall =>
        /\ \A status \in ControlStatus : TallyPresent(g_ret.value, status)
        /\ \A id \in DOMAIN controls : DetailPresent(g_ret.value, id)

\* The tally line of the summary for a status of the current table of five
\* Controls: each Control is 20.0 percent.
SummaryLine(status) ==
    "\n- " \o SummaryLabel[status] \o ": " \o str_int(CountOf(controls, status))
    \o " (" \o str_int(20 * CountOf(controls, status)) \o ".0%)\n"

\* C17, amended: the structured report has a tally entry for each of the five
\* statuses, zero or not, and an entry for every Control; the summary report
\* has the assessment date, the total and four tally lines (Compliant,
\* Partially Compliant, Non-Compliant, Not Assessed, each with count and
\* percentage), no line for not_applicable, and under High Priority
\* Remediation Items one line per non_compliant Control and none for any
\* other Control.
ReportRenderings ==
    /\ JsonReport =>
          /\ \A status \in ControlStatus :
                Occurrences("\n    \"" \o status \o "\": "
                            \o str_int(CountOf(controls, status)), g_ret.value) = 1
          /\ \A id \in DOMAIN controls :
                Occurrences("\n    \"" \o id \o "\": {", g_ret.value) = 1
    /\ SummaryReport =>
          LET text == g_ret.value
          IN  /\ g_raised = "None"
              /\ in_str("\nAssessment Date: " \o isoformat(assessment_date) \o "\n", text)
              /\ in_str("\nTotal Controls Assessed: 5\n", text)
              /\ \A status \in ControlStatus \ {"not_applicable"} :
                    Occurrences(SummaryLine(status), text) = 1
              /\ ~TallyPresent(text, "not_applicable")
              /\ ~in_str("pplicable", text)
              /\ Occurrences("\n- ", text) = 4 + CountOf(controls, "non_compliant")
              /\ EndsWith(text, "\n")
              /\ \A id \in DOMAIN controls :
                    Occurrences("\n- " \o id \o ": " \o controls[id].title \o "\n", text)
                    = IF controls[id].status = "non_compliant" THEN 1 ELSE 0

\* C17 witness: a summary report of a table with two Controls unassessed
\* and "3.4.1" non_compliant, which is the one Control it lists.
ReportRenderings_witness ==
    /\ SummaryReport
    /\ in_str("\n- Not Assessed: 2 (40.0%)\n", g_ret.value)
    /\ in_str("\n- Non-Compliant: 1 (20.0%)\n", g_ret.value)
    /\ in_str("\n- 3.4.1: Establish configuration baselines\n", g_ret.value)
    /\ controls["3.1.2"].status = "partially_compliant"
    /\ ~DetailPresent(g_ret.value, "3.1.2")

\* C20: the identifiers of the table are those it was initialised with in
\* every reachable state, five of them, and no step adds or removes one; the
\* total the summary report divides by is therefore 5, never 0, and the
\* summary report never raises ZeroDivisionError.
ControlSetFixed ==
    /\ DOMAIN controls = DOMAIN _initialize_controls
    /\ DOMAIN controls = Range(ControlIds)
    /\ Cardinality(DOMAIN controls) = 5
    /\ report_data(controls, assessment_date).total_controls = 5
    /\ generate_compliance_report(controls, assessment_date, "summary").raised = "None"
    /\ ReportCall =>
          /\ g_raised = "None"
          /\ g_ret.kind = "str"
    /\ SummaryReport => in_str("\nTotal Controls Assessed: 5\n", g_ret.value)

\* C20 witness: a summary report of the fully assessed table, with its
\* percentages computed over 5.
ControlSetFixed_witness ==
    /\ SummaryReport
    /\ g_raised = "None"
    /\ \A id \in Range(ControlIds) : controls[id].status # "not_assessed"
    /\ in_str("\n- Compliant: 3 (60.0%)\n", g_ret.value)
    /\ in_str("\n- Not Assessed: 0 (0.0%)\n", g_ret.value)

(***************************************************************************)
(* Properties of the command line of kql_generator, checked under          *)
(* SpecKqlCli.                                                             *)
(***************************************************************************)
KqlDone == argv.program = "kql_generator" /\ pc = "done"

\* The run reached the --template branch of main with a name that is not a
\* key of query_templates.
UnknownTemplateRun ==
    /\ KqlDone
    /\ ~argv.list_templates
    /\ ~argv.interactive
    /\ ~Truthy(argv.prompt)
    /\ Truthy(argv.template)
    /\ argv.template[1] \notin Range(TemplateNames)

Printed(line) == \E i \in DOMAIN stdout : stdout[i] = line

\* A query was printed: the banner of the end of main is on the output.
QueryPrinted == Printed(MAG \o " Generated KQL Query:")

\* C18: a run that asks, with --template, for a name that is not in the Rule
\* table reports it with a message, prints no query, writes no file and ends
\* with a non-zero exit status.
UnknownTemplateExitsNonZero ==
    UnknownTemplateRun =>
        /\ Printed(CROSS \o " Template '" \o argv.template[1] \o "' not found.")
        /\ ~QueryPrinted
        /\ files = NoFiles
        /\ exit_code # 0

\* C18, the run that fails it: --template nope --output q.kql prints the
\* message and the list of templates, prints and writes no query, and ends
\* with exit status 0.
UnknownTemplateExitsZero ==
    /\ UnknownTemplateRun
    /\ argv.template = <<"nope">>
    /\ argv.output = <<"q.kql">>
    /\ stdout = <<CROSS \o " Template 'nope' not found.">> \o list_templates
    /\ ~QueryPrinted
    /\ files = NoFiles
    /\ exit_code = 0

(***************************************************************************)
(* Properties of the command line of nist_800_171_grc, checked under       *)
(* SpecGrcCli.  The modes are tried in the order --assess, --control,      *)
(* --control-family, --gap-analysis, --report; an option with the value "" *)
(* counts as not given.                                                    *)
(***************************************************************************)
GrcDone == argv.program = "nist_800_171_grc" /\ pc = "done" /\ argv.format \in FormatChoices

\* The run took the --control branch with an identifier outside the table.
UnknownControlRun ==
    /\ GrcDone
    /\ ~argv.assess
    /\ Truthy(argv.control)
    /\ argv.control[1] \notin Range(ControlIds)

\* The run took the --control-family branch with a value outside the enum.
InvalidFamilyRun ==
    /\ GrcDone
    /\ ~argv.assess
    /\ ~Truthy(argv.control)
    /\ Truthy(argv.control_family)
    /\ argv.control_family[1] \notin Range(ControlFamily)

\* The run gave no mode.
NoModeRun ==
    /\ GrcDone
    /\ ~argv.assess
    /\ ~Truthy(argv.control)
    /\ ~Truthy(argv.control_family)
    /\ ~argv.gap_analysis
    /\ ~argv.report

\* C19: a finished run of the compliance tool that took the --control branch
\* with an unknown identifier, or the --control-family branch with a value
\* outside the fourteen families, or that gave no mode, has printed a message
\* for it, has printed no output and written no file, and has exit status 1;
\* every other finished run (a mode that worked) has exit status 0 and has
\* printed its output or written it to the --output file.
GrcCliExitCodes ==
    /\ (argv.program = "nist_800_171_grc" /\ pc # "done") => exit_code = -1
    /\ UnknownControlRun =>
          /\ exit_code = 1
          /\ stdout = <<MAG \o " Assessing control " \o argv.control[1] \o "...",
                        CROSS \o " Error: Control " \o argv.control[1] \o " not found">>
          /\ ret = ""
          /\ files = NoFiles
    /\ InvalidFamilyRun =>
          /\ exit_code = 1
          /\ Len(stdout) = 2
          /\ stdout[1] = CROSS \o " Invalid control family: " \o argv.control_family[1]
          /\ StartsWith(stdout[2], "Valid families: ['3.1', ")
          /\ ret = ""
          /\ files = NoFiles
    /\ NoModeRun =>
          /\ exit_code = 1
          /\ stdout = <<HelpText>>
          /\ ret = ""
          /\ files = NoFiles
    /\ (GrcDone /\ ~UnknownControlRun /\ ~InvalidFamilyRun /\ ~NoModeRun) =>
          /\ exit_code = 0
          /\ raised = "None"
          /\ ret # ""
          /\ IF Truthy(argv.output)
             THEN /\ files = (argv.output[1] :> ret)
                  /\ stdout[Len(stdout)] = CHECK \o " Output saved to " \o argv.output[1]
                  /\ \A i \in DOMAIN stdout : stdout[i] # ret
             ELSE /\ files = NoFiles
                  /\ stdout[Len(stdout)] = ret

\* C19 witness: --control 999.999 --output report.txt has ended with the
\* error message, exit status 1 and no file.
GrcCliExitCodes_witness ==
    /\ UnknownControlRun
    /\ argv.control = <<"999.999">>
    /\ argv.output = <<"report.txt">>
    /\ stdout[Len(stdout)] = CROSS \o " Error: Control 999.999 not found"
    /\ exit_code = 1
    /\ files = NoFiles

(***************************************************************************)
(* Properties of several NISTGRCAssessment objects, checked under          *)
(* SpecObjects.                                                            *)
(***************************************************************************)
\* The addresses an instance's table refers to.
ObjectsOf(instance) == Range(instance.controls)

\* No object is referred to by two instances, or twice by one.
NothingShared ==
    /\ \A i, j \in DOMAIN instances :
           i # j => ObjectsOf(instances[i]) \cap ObjectsOf(instances[j]) = {}
    /\ \A i \in DOMAIN instances :
           Cardinality(ObjectsOf(instances[i])) = Len(ControlIds)

\* The status, findings and recommendations of every Control of a table.
Assessed(table) ==
    [control_id \in DOMAIN table |->
        [status |-> table[control_id].status,
         findings |-> table[control_id].findings,
         recommendations |-> table[control_id].recommendations]]

\* A step that constructs an instance gives it a table of the five Controls, all
\* not_assessed with no findings and no recommendations.
ConstructsFresh ==
    (g_op' = "__init__" /\ Len(instances') = Len(instances) + 1) =>
        LET table == table_of(heap', instances'[self'])
        IN  /\ self' = Len(instances')
            /\ DOMAIN table = Range(ControlIds)
            /\ \A control_id \in DOMAIN table :
                   /\ table[control_id].status = "not_assessed"
                   /\ table[control_id].findings = <<>>
                   /\ table[control_id].recommendations = <<>>

\* A step leaves the Controls of every instance it was not made on as they were.
OthersUntouched ==
    \A j \in DOMAIN instances :
        j # self' =>
            Assessed(table_of(heap', instances'[j])) = Assessed(table_of(heap, instances[j]))

\* C21: no two NISTGRCAssessment instances share a Control object; a newly
\* constructed instance has its own table in which every Control is not_assessed
\* with empty findings and recommendations; and a call on one instance (its
\* construction or any assessment) leaves the status, findings and
\* recommendations of every Control of every other instance unchanged.
InstancesShareNothing ==
    /\ []NothingShared
    /\ [][ConstructsFresh /\ OthersUntouched]_vars

\* C21 witness: two instances exist, assess_all_controls was just called on the
\* first, whose "3.4.1" is non_compliant, and every Control of the second is
\* still not_assessed with no findings.
InstancesShareNothing_witness ==
    /\ Len(instances) = 2
    /\ self = 1
    /\ g_op = "assess_all_controls"
    /\ table_of(heap, instances[1])["3.4.1"].status = "non_compliant"
    /\ \A control_id \in Range(ControlIds) :
           /\ table_of(heap, instances[2])[control_id].status = "not_assessed"
           /\ table_of(heap, instances[2])[control_id].findings = <<>>

(***************************************************************************)
(* More properties of the assessment calls, checked under SpecGRC.         *)
(***************************************************************************)
\* The fields of a Control that an assessment does not assign.
Identity(control) ==
    [control_id |-> control.control_id,
     family |-> control.family,
     title |-> control.title,
     description |-> control.description,
     azure_mappings |-> control.azure_mappings,
     assessment_method |-> control.assessment_method]

\* C22: a step that calls assess_control with a known identifier keeps the keys
\* of the table, leaves every other Control exactly as it was, and leaves the
\* target's control_id, family, title, description, azure_mappings and
\* assessment_method as they were: only the target's status, findings and
\* recommendations can differ.
AssessControlFrame ==
    [][(g_op' = "assess_control" /\ g_arg' \in DOMAIN controls) =>
          /\ DOMAIN controls' = DOMAIN controls
          /\ \A control_id \in DOMAIN controls \ {g_arg'} :
                 controls'[control_id] = controls[control_id]
          /\ Identity(controls'[g_arg']) = Identity(controls[g_arg'])
          /\ controls'[g_arg'].control_id = g_arg']_vars

\* C22 witness: assess_control("3.1.2") has just made "3.1.2"
\* partially_compliant, it has its title and description, and "3.1.1", of the
\* same family, is still not_assessed.
AssessControlFrame_witness ==
    /\ g_op = "assess_control"
    /\ g_arg = "3.1.2"
    /\ g_raised = "None"
    /\ controls["3.1.2"].status = "partially_compliant"
    /\ Identity(controls["3.1.2"]) = Identity(_initialize_controls["3.1.2"])
    /\ controls["3.1.1"].status = "not_assessed"
    /\ controls["3.1.1"].findings = <<>>

\* A Control that no call has assessed.
Unassessed(control) ==
    /\ control.status = "not_assessed"
    /\ control.findings = <<>>
    /\ control.recommendations = <<>>

\* A Control with the outcome hardcoded for its identifier.
HasOutcome(control, control_id) ==
    /\ control.status = HardcodedStatus[control_id]
    /\ control.status # "not_assessed"
    /\ control = assess_control(_initialize_controls, control_id).controls[control_id]

\* C23: in every state reachable by assessment calls each Control is either
\* not_assessed with no findings and no recommendations or carries the outcome
\* hardcoded for its identifier, and none is not_applicable; and no step changes
\* the status of a Control that has left not_assessed.
StatusLifecycle ==
    /\ [](\A control_id \in Range(ControlIds) :
              /\ Unassessed(controls[control_id]) \/ HasOutcome(controls[control_id], control_id)
              /\ controls[control_id].status # "not_applicable")
    /\ [][\A control_id \in Range(ControlIds) :
              controls[control_id].status # "not_assessed" =>
                  controls'[control_id].status = controls[control_id].status]_vars

\* C23 witness: assess_control_family("3.1") was called on a table where
\* "3.1.1" and "3.4.1" had been assessed: both kept their status, "3.1.2" took
\* its own, and "3.13.1" is still not_assessed.
StatusLifecycle_witness ==
    /\ g_op = "assess_control_family"
    /\ g_arg = "3.1"
    /\ controls["3.1.1"].status = "compliant"
    /\ controls["3.1.2"].status = "partially_compliant"
    /\ controls["3.4.1"].status = "non_compliant"
    /\ Unassessed(controls["3.13.1"])

\* The methods that report on the table.
ReadingMethods ==
    {"generate_gap_analysis", "_get_compliance_summary", "generate_compliance_report"}

\* C24: a step that calls generate_gap_analysis, _get_compliance_summary or
\* generate_compliance_report (format json, summary or any other string) raises
\* nothing and leaves the table and the assessment date as they were; when the
\* call before it was the same call with the same argument, it returns what that
\* one returned; and a format that is neither json nor summary returns the text
\* that json returns.
ReadingLeavesTable ==
    [][g_op' \in ReadingMethods =>
          /\ controls' = controls
          /\ assessment_date' = assessment_date
          /\ g_raised' = "None"
          /\ (g_op = g_op' /\ g_arg = g_arg') => g_ret' = g_ret
          /\ (g_op' = "generate_compliance_report" /\ g_arg' \notin {"json", "summary"}) =>
                 g_ret' = Value("str", generate_compliance_report(
                                            controls, assessment_date, "json").text)]_vars

\* C24 witness: generate_compliance_report("xml") has returned the structured
\* text of a table where "3.4.1" is non_compliant and "3.1.1" is not assessed,
\* and the table still is so.
ReadingLeavesTable_witness ==
    /\ g_op = "generate_compliance_report"
    /\ g_arg = "xml"
    /\ g_ret.kind = "str"
    /\ g_ret.value = generate_compliance_report(controls, assessment_date, "json").text
    /\ controls["3.4.1"].status = "non_compliant"
    /\ Unassessed(controls["3.1.1"])

\* The heading of the last section of the summary report.
RemediationHeading == "\nHigh Priority Remediation Items:\n"

\* The text of the summary report after that heading.
RemediationSection(text) ==
    LET n == Len(RemediationHeading)
        at == CHOOSE i \in 1..(Len(text) - n + 1) :
                  SubSeq(text, i, i + n - 1) = RemediationHeading
    IN  SubSeq(text, at + n, Len(text))

\* Items as the lines of a list, one "- item" per line.
RECURSIVE ListedLines(_)
ListedLines(items) ==
    IF items = <<>> THEN ""
    ELSE "- " \o Head(items) \o "\n" \o ListedLines(Tail(items))

\* The Controls of the table that are non_compliant, in table order.
RECURSIVE NonCompliantFrom(_, _)
NonCompliantFrom(table, i) ==
    IF i > Len(ControlIds) THEN <<>>
    ELSE (IF table[ControlIds[i]].status = "non_compliant" THEN <<ControlIds[i]>> ELSE <<>>)
         \o NonCompliantFrom(table, i + 1)

\* C25: in every reachable table state the summary report has the heading
\* "High Priority Remediation Items:" once, and what follows it is the high
\* bucket of generate_gap_analysis, item by item in the same order, one
\* "- id: title" line each, for exactly the non_compliant Controls; and the
\* number of those items is the non_compliant count of the compliance summary.
RemediationItemsAreHighGaps ==
    LET text == generate_compliance_report(controls, assessment_date, "summary").text
        high == generate_gap_analysis(controls).high
        ids == NonCompliantFrom(controls, 1)
    IN  /\ Occurrences(RemediationHeading, text) = 1
        /\ RemediationSection(text) = ListedLines(high)
        /\ high = [i \in 1..Len(ids) |-> ids[i] \o ": " \o controls[ids[i]].title]
        /\ Len(high) = _get_compliance_summary(controls)["non_compliant"]

\* C25 witness: the summary report was returned for a table where "3.4.1" is
\* non_compliant and "3.1.2" partially_compliant: its last section is the one
\* line of "3.4.1", which is the one item of the high bucket.
RemediationItemsAreHighGaps_witness ==
    /\ g_op = "generate_compliance_report"
    /\ g_arg = "summary"
    /\ controls["3.4.1"].status = "non_compliant"
    /\ controls["3.1.2"].status = "partially_compliant"
    /\ RemediationSection(g_ret.value) = "- 3.4.1: Establish configuration baselines\n"
    /\ generate_gap_analysis(controls).high = <<"3.4.1: Establish configuration baselines">>
    /\ _get_compliance_summary(controls)["non_compliant"] = 1

=============================================================================
